---- MODULE Spec2Model ----
(***************************************************************************)
(* A model of the Argon panel and the Krypton daemon.                      *)
(*                                                                         *)
(*  - the daemon's servers router (src/unnamed/part_000): runInstallation, *)
(*    POST / (create), DELETE /:id and POST /:id/reinstall, against the    *)
(*    container engine and the daemon's servers table;                     *)
(*  - the panel's servers router (src/api/src/routers/servers.ts, and its  *)
(*    sibling src/unnamed/part_006): POST / and DELETE /:id against the    *)
(*    allocations and servers repositories;                                *)
(*  - the daemon's WebSocketManager (the TypeScript part of src/manage.sh, *)
(*    lines 91-553): connection handling, session set-up, log attach,      *)
(*    resource monitoring, send_command and power_action.                  *)
(*                                                                         *)
(* An `await` of an operation that does I/O (the engine, the file system,  *)
(* the daemon's database, HTTP) is a point where any other task may run.   *)
(* An action is the code that runs when one awaited operation completes:   *)
(* the effect of that operation, then the synchronous code up to the next  *)
(* such await.  The panel's repositories are synchronous inside async      *)
(* functions: there each `await` only yields to the other pending          *)
(* requests.  Calls to the engine, the file system and the control plane   *)
(* may fail; the failure is a nondeterministic choice of the action.  The  *)
(* one exception is the forced removal of a container that exists, which   *)
(* the engine is taken to carry out.  One message handler and one timer    *)
(* callback are in flight per connection at a time.                        *)
(***************************************************************************)
EXTENDS Integers, Sequences, FiniteSets, TLC

\* ------------------------------------------------------------ bounds
NumServers == 1      \* servers the daemon's router is asked about
MaxJobs == 2         \* runs of the installation pipeline (create + reinstall)
NumAllocs == 1       \* allocations in the panel's table
MaxReqs == 3         \* requests to the panel's servers router
MaxConns == 2        \* WebSocket connections
MaxStreams == 2      \* log streams one session has open or is opening
MaxHandlers == 2     \* 'message' handlers one connection has in flight
MaxLines == 2        \* log lines broadcast per server while sessions are explored
MaxFetches == 2      \* calls of fetchServerConfig in flight
MaxPathLen == 4      \* pieces of a declared config file path
MaxRules == 3        \* rules in a variable's rule string
MaxValueLen == 3     \* characters in a variable's value
MaxTemplateLen == 6  \* characters in a template
MaxVariables == 2    \* variables in a definition list
MaxPayload == 2     \* bytes in a frame's payload
MaxFrames == 2      \* frames in a stream
MaxCuts == 2        \* places a stream is cut into reads
MaxChunks == 2      \* chunks of output an install container writes
MaxCommands == 2    \* send_command events of a connection

Servers == 1..NumServers
Jobs == 1..MaxJobs
Allocs == 1..NumAllocs
Reqs == 1..MaxReqs
Conns == 1..MaxConns
StreamIds == 1..MaxStreams
Handlers == 1..MaxHandlers
Fetches == 1..MaxFetches

Null == 0            \* SQL NULL / undefined

MAX_LOGS == 100      \* WebSocketManager.MAX_LOGS

maxRetries == 3      \* fetchServerConfig: const maxRetries

VARIABLES
    row,          \* daemon `servers` table: row[s] = NoRow or [docker_id, state]
    containers,   \* engine registry, by container name
    volume,       \* volume[s]: the server's volume directory exists
    job,          \* job[j]: one run of runInstallation and the code around it
    nextJob,      \* next unused job slot
    post,         \* post[s]: position of the POST / handler that creates s
    del,          \* del[s]: position and snapshot of the DELETE /:id handler
    delDuring,    \* history: the delete of s ran while a job of s was installing
    pAlloc,       \* panel `allocations` table: pAlloc[a] = the row's `assigned`
    pServers,     \* panel `servers` table, by server id
    preq,         \* preq[r]: one request to the panel's servers router
    conn,         \* conn[c]: one WebSocket connection to the daemon and its session
    logBuffers,   \* logBuffers[s]: the log buffer of server s, oldest line first
    logged,       \* history: logged[s] lines were broadcast to server s so far
    fetch,        \* fetch[k]: one call of fetchServerConfig
    arg,          \* the argument of the function under study
    ret           \* <<what it returned>>, empty before the call

daemonVars == <<row, containers, volume, job, nextJob, post, del, delDuring>>

panelVars == <<pAlloc, pServers, preq>>

bufVars == <<logBuffers, logged>>

wsVars == <<conn, bufVars>>

callVars == <<fetch, arg, ret>>

otherVars == <<panelVars, wsVars, callVars>>

vars == <<daemonVars, panelVars, wsVars, callVars>>

\* ---------------------------------------------------- daemon: state
NoRow == [present |-> FALSE, docker_id |-> Null, state |-> "none"]

\* ServerState values the daemon's router writes.
ServerState == {"installing", "installed", "install_failed", "errored"}

Absent == [status |-> "absent", owner |-> 0]

\* `${safeServerId}_install`, the name runInstallation creates the container under.
installContainerName(s) == <<s, "install">>

\* `${safeServerId}_install`, the name the finally block removes.
cleanupContainerName_GameName(s) == <<s, "game">>
cleanupContainerName(s) == <<s, "install">>

\* `safeServerId`, the name of the long-lived game container.
gameContainerName(s) == <<s, "game">>

ContainerNames == Servers \X {"install", "game"}

\* ============================================ validateVariableValue
\* A rule string, split at "|": nullable, string, max:N, or another word.
\* A value is a string of the character "x".
Rules == {[kind |-> "nullable", n |-> 0], [kind |-> "string", n |-> 0],
          [kind |-> "required", n |-> 0]}
         \cup {[kind |-> "max", n |-> n] : n \in 0..MaxValueLen - 1}

RuleLists == UNION {[1..n -> Rules] : n \in 0..MaxRules}

Values == UNION {[1..n -> {"x"}] : n \in 0..MaxValueLen}

\* the loop over ruleList: `nullable` returns true for the empty value,
\* max:N returns false for a value longer than N, everything else goes on;
\* true after the last rule
RECURSIVE validateVariableValue_FirstMax(_, _)
validateVariableValue_FirstMax(value, ruleList) ==
    IF ruleList = <<>> THEN TRUE
    ELSE LET rule == Head(ruleList) IN
         IF rule.kind = "nullable" /\ value = <<>> THEN TRUE
         ELSE IF rule.kind = "max" THEN Len(value) <= rule.n
         ELSE validateVariableValue_FirstMax(value, Tail(ruleList))

RECURSIVE validateVariableValue(_, _)
validateVariableValue(value, ruleList) ==
    IF ruleList = <<>> THEN TRUE
    ELSE LET rule == Head(ruleList) IN
         IF rule.kind = "nullable" /\ value = <<>> THEN TRUE
         ELSE IF rule.kind = "max" /\ Len(value) > rule.n THEN FALSE
         ELSE validateVariableValue(value, Tail(ruleList))

\* ================================================= processVariables
\* Text is a sequence of characters.  The characters of templates, names
\* and values here: "%", the letters a, b, A, B, x, the space and "_".
\* No value holds "$", which String.prototype.replace would expand.

\* toLowerCase() and replace(/ /g, '_') on one character
LowerChar(ch) ==
    CASE ch = "A" -> "a"
      [] ch = "B" -> "b"
      [] ch = " " -> "_"
      [] OTHER -> ch

\* `%${variable.name.toLowerCase().replace(/ /g, '_')}%`
placeholder(name) == <<"%">> \o [i \in 1..Len(name) |-> LowerChar(name[i])] \o <<"%">>

\* the text has the pattern at position i
IsAt(text, pattern, i) ==
    /\ i + Len(pattern) - 1 <= Len(text)
    /\ SubSeq(text, i, i + Len(pattern) - 1) = pattern

Occurrences(text, pattern) == {i \in 1..Len(text) : IsAt(text, pattern, i)}

\* a variant of replace that drops the text behind the first occurrence
replace_DropTail(text, pattern, value) ==
    LET found == Occurrences(text, pattern) IN
    IF found = {} THEN text
    ELSE LET i == CHOOSE m \in found : \A n \in found : m <= n
         IN SubSeq(text, 1, i - 1) \o value

\* text.replace(pattern, value) with a string pattern: the first occurrence
\* only
replace(text, pattern, value) ==
    LET found == Occurrences(text, pattern) IN
    IF found = {} THEN text
    ELSE LET i == CHOOSE m \in found : \A n \in found : m <= n
         IN SubSeq(text, 1, i - 1) \o value \o SubSeq(text, i + Len(pattern), Len(text))

\* variable.currentValue ?? variable.defaultValue; currentValue is <<>> when
\* undefined and <<text>> when given
EffectiveValue(variable) ==
    IF variable.currentValue # <<>> THEN variable.currentValue[1]
    ELSE variable.defaultValue

\* processVariables threw: there is no result
Threw_NoText == [threw |-> TRUE, text |-> <<>>]

\* the loop of processVariables over the variables left, `result` so far:
\* a value that fails its rules throws, else the placeholder is replaced
RECURSIVE processVariables_SkipInvalid(_, _)
processVariables_SkipInvalid(result, variables) ==
    IF variables = <<>> THEN [threw |-> FALSE, text |-> result]
    ELSE LET variable == Head(variables)
             value == EffectiveValue(variable)
         IN IF ~validateVariableValue(value, variable.rules)
            THEN processVariables_SkipInvalid(result, Tail(variables))
            ELSE processVariables_SkipInvalid(
                     replace(result, placeholder(variable.name), value), Tail(variables))

RECURSIVE processVariables(_, _)
processVariables(result, variables) ==
    IF variables = <<>> THEN [threw |-> FALSE, text |-> result]
    ELSE LET variable == Head(variables)
             value == EffectiveValue(variable)
         IN IF ~validateVariableValue(value, variable.rules)
            THEN Threw_NoText
            ELSE processVariables(
                     replace(result, placeholder(variable.name), value), Tail(variables))

\* some variable of the list has an effective value its rules reject
Violates(variables) ==
    \E i \in 1..Len(variables) :
        ~validateVariableValue(EffectiveValue(variables[i]), variables[i].rules)

\* The install script and the variable lists of the configurations the
\* installation pipeline is run with: no variable, one whose value fits, and
\* lists in which one value is longer than its max:1 allows.
InstallScript == <<"%", "a", "%", "%", "b", "%">>

FitsVariable == [name |-> <<"a">>, defaultValue |-> <<"x", "x">>,
                 currentValue |-> << <<"x">> >>,
                 rules |-> <<[kind |-> "string", n |-> 0], [kind |-> "max", n |-> 1]>>]

LongVariable == [name |-> <<"B">>, defaultValue |-> <<"x", "x">>, currentValue |-> <<>>,
                 rules |-> <<[kind |-> "nullable", n |-> 0], [kind |-> "max", n |-> 1]>>]

InstallVariables == {<<>>, <<FitsVariable>>, <<LongVariable>>,
                     <<FitsVariable, LongVariable>>}

\* `violates`: the configuration's variables break a rule; `text`: the
\* processed script; `scripted`: install.sh was written; `pullFailed`: a pull
\* of this job was rejected; `dir`: this job's mkdir succeeded; `configured`:
\* this job's writeConfigFiles succeeded
IdleJob == [srv |-> 0, path |-> "none", pc |-> "idle", run |-> "no", failed |-> FALSE,
            removeAttempts |-> 0, made |-> FALSE, attached |-> FALSE,
            exit |-> -1, snap |-> Null,
            violates |-> FALSE, text |-> <<>>, scripted |-> FALSE,
            pullFailed |-> FALSE, dir |-> FALSE, configured |-> FALSE,
            output |-> <<>>, error |-> <<>>]

\* A finished job: the handler has answered, or the promise chain has ended.
DoneJob == [IdleJob EXCEPT !.pc = "done"]

RunPcs == {"pull", "mkdir", "config", "script", "create", "attach", "start",
           "wait", "finally"}

DaemonInit ==
    /\ row = [s \in Servers |-> NoRow]
    /\ containers = [n \in ContainerNames |-> Absent]
    /\ volume = [s \in Servers |-> FALSE]
    /\ job = [j \in Jobs |-> IdleJob]
    /\ nextJob = 1
    /\ post = [s \in Servers |-> "none"]
    /\ del = [s \in Servers |-> [pc |-> "none", docker_id |-> Null]]
    /\ delDuring = [s \in Servers |-> FALSE]

\* ------------------------------------------ daemon: runInstallation
Installing(s) == \E j \in Jobs : job[j].srv = s /\ job[j].run = "running"

\* A step of the try block failed: the catch block rethrows, through finally.
Threw_NoFinally(j) ==
    [job[j] EXCEPT !.failed = TRUE, !.run = "threw",
                   !.pc = IF job[j].path = "create" THEN "fail_upd" ELSE "r_errored"]
Threw(j) == [job[j] EXCEPT !.pc = "finally", !.failed = TRUE]

\* Promise.all over the two pulls: fulfilled when both are, rejected when
\* either is
AllPulled_InstallOnly(install, runtime) == install
AllPulled(install, runtime) == install /\ runtime

\* await Promise.all([pullDockerImage(install image), pullDockerImage(image)]):
\* pullDockerImage rethrows what docker.pull or followProgress reports
RunPulled(j) ==
    /\ job[j].pc = "pull"
    /\ \E install \in BOOLEAN, runtime \in BOOLEAN :
          job' = [job EXCEPT ![j] =
                IF AllPulled(install, runtime)
                THEN [@ EXCEPT !.pc = "mkdir", !.pullFailed = ~(install /\ runtime)]
                ELSE [Threw(j) EXCEPT !.pullFailed = TRUE]]
    /\ UNCHANGED <<row, containers, volume, nextJob, post, del, delDuring>>
    /\ UNCHANGED otherVars

\* processVariables(serverConfig.install.script, serverConfig.variables): a
\* throw goes to the catch block, else fs.writeFile(install.sh) is awaited
ScriptProcessed(j, variables) ==
    LET processed == processVariables(InstallScript, variables) IN
    IF processed.threw
    THEN [Threw(j) EXCEPT !.violates = Violates(variables)]
    ELSE [job[j] EXCEPT !.pc = "script", !.text = processed.text,
                        !.violates = Violates(variables)]

\* await fs.mkdir(volumePath); then writeConfigFiles when there are config
\* files, else processVariables and the write of install.sh
RunMkdir(j) ==
    /\ job[j].pc = "mkdir"
    /\ \E ok \in BOOLEAN, hasConfig \in BOOLEAN, variables \in InstallVariables :
          /\ volume' = [volume EXCEPT ![job[j].srv] = @ \/ ok]
          /\ job' = [job EXCEPT ![j] =
                IF ~ok THEN Threw(j)
                ELSE IF hasConfig THEN [@ EXCEPT !.pc = "config", !.dir = TRUE]
                ELSE [ScriptProcessed(j, variables) EXCEPT !.dir = TRUE]]
    /\ UNCHANGED <<row, containers, nextJob, post, del, delDuring>>
    /\ UNCHANGED otherVars

\* await writeConfigFiles(...); then processVariables(install.script, variables)
RunConfigWritten(j) ==
    /\ job[j].pc = "config"
    /\ \E ok \in BOOLEAN, variables \in InstallVariables :
          job' = [job EXCEPT ![j] =
                IF ~ok THEN Threw(j)
                ELSE [ScriptProcessed(j, variables) EXCEPT !.configured = TRUE]]
    /\ UNCHANGED <<row, containers, volume, nextJob, post, del, delDuring>>
    /\ UNCHANGED otherVars

\* await fs.writeFile(install.sh); then docker.createContainer is called
RunScriptWritten(j) ==
    /\ job[j].pc = "script"
    /\ \E ok \in BOOLEAN :
          job' = [job EXCEPT ![j] = IF ok THEN [@ EXCEPT !.pc = "create", !.scripted = TRUE]
                                          ELSE Threw(j)]
    /\ UNCHANGED <<row, containers, volume, nextJob, post, del, delDuring>>
    /\ UNCHANGED otherVars

\* await docker.createContainer({name: installContainerName, AutoRemove});
\* the engine refuses a name that is in use.  Then container.attach is called.
RunCreated(j) ==
    /\ job[j].pc = "create"
    /\ LET n == installContainerName(job[j].srv) IN
       \E ok \in BOOLEAN :
          IF ok /\ containers[n].status = "absent"
          THEN /\ containers' = [containers EXCEPT
                                    ![n] = [status |-> "created", owner |-> j]]
               /\ job' = [job EXCEPT ![j] = [@ EXCEPT !.pc = "attach", !.made = TRUE]]
          ELSE /\ job' = [job EXCEPT ![j] = Threw(j)]
               /\ UNCHANGED containers
    /\ UNCHANGED <<row, volume, nextJob, post, del, delDuring>>
    /\ UNCHANGED otherVars

\* The container this job created is still in the engine.
Mine(j) ==
    LET c == containers[installContainerName(job[j].srv)] IN
    c.status # "absent" /\ c.owner = j

\* container.attach resolved: docker.modem.demuxStream(stream, stdout, stderr)
\* wires the stream to the two Writables, then container.start() is called
Attached_NotWired(rec) == [rec EXCEPT !.pc = "start"]
Attached(rec) == [rec EXCEPT !.pc = "start", !.attached = TRUE]

\* await container.attach(...); demuxStream wires stdout/stderr; then
\* container.start() is called
RunAttached(j) ==
    /\ job[j].pc = "attach"
    /\ \E ok \in BOOLEAN :
          job' = [job EXCEPT ![j] =
                IF ok /\ Mine(j) THEN Attached(@)
                ELSE Threw(j)]
    /\ UNCHANGED <<row, containers, volume, nextJob, post, del, delDuring>>
    /\ UNCHANGED otherVars

\* await container.start(); then container.wait() is called
RunStarted(j) ==
    /\ job[j].pc = "start"
    /\ LET n == installContainerName(job[j].srv) IN
       \E ok \in BOOLEAN :
          IF ok /\ Mine(j)
          THEN /\ containers' = [containers EXCEPT ![n].status = "running"]
               /\ job' = [job EXCEPT ![j] = [@ EXCEPT !.pc = "wait"]]
          ELSE /\ job' = [job EXCEPT ![j] = Threw(j)]
               /\ UNCHANGED containers
    /\ UNCHANGED <<row, volume, nextJob, post, del, delDuring>>
    /\ UNCHANGED otherVars

\* The engine: a running install container exits; AutoRemove deletes it.
InstallExit(s) ==
    /\ containers[installContainerName(s)].status = "running"
    /\ \E code \in {0, 1} :
          job' = [job EXCEPT ![containers[installContainerName(s)].owner].exit = code]
    /\ containers' = [containers EXCEPT ![installContainerName(s)] = Absent]
    /\ UNCHANGED <<row, volume, nextJob, post, del, delDuring>>
    /\ UNCHANGED otherVars

\* new Error(`Installation failed with exit code ${result.StatusCode}.
\* Output: ${output}`)
ExitError_NoOutput(code, output) == <<[code |-> code, output |-> <<>>]>>
ExitError(code, output) == <<[code |-> code, output |-> output]>>

\* the rejection of container.wait() itself: no exit code, no output
WaitError == <<[code |-> -1, output |-> <<>>]>>

\* await container.wait(); a non-zero StatusCode throws
RunWaited(j) ==
    /\ job[j].pc = "wait"
    /\ \/ /\ job[j].exit # -1
          /\ job' = [job EXCEPT ![j] =
                IF job[j].exit = 0
                THEN [@ EXCEPT !.pc = "finally"]
                ELSE [Threw(j) EXCEPT !.error = ExitError(job[j].exit, job[j].output)]]
       \/ job' = [job EXCEPT ![j] = [Threw(j) EXCEPT !.error = WaitError]]
    /\ UNCHANGED <<row, containers, volume, nextJob, post, del, delDuring>>
    /\ UNCHANGED otherVars

\* What the caller does once runInstallation has settled: POST / chains
\* .then(createGameContainer ...).catch(state = InstallFailed); the reinstall
\* handler awaits it inside its try block.
Settled(rec) ==
    [rec EXCEPT !.run = IF rec.failed THEN "threw" ELSE "returned",
                !.attached = FALSE, !.exit = -1,
                !.pc = IF rec.path = "create"
                          THEN (IF rec.failed THEN "fail_upd" ELSE "game")
                          ELSE (IF rec.failed THEN "r_errored" ELSE "r_installed")]

\* finally: docker.getContainer(`${safeServerId}_install`).remove({force: true}),
\* its rejection ignored.  A forced removal kills a running container, whose
\* waiter then sees exit code 137; removing a name that is not there fails (404).
RunFinally(j) ==
    /\ job[j].pc = "finally"
    /\ LET n == cleanupContainerName(job[j].srv)
           c == containers[n]
           done == Settled([job[j] EXCEPT !.removeAttempts = @ + 1])
       IN /\ containers' = [containers EXCEPT ![n] = Absent]
          /\ job' = [i \in Jobs |->
                IF i = j THEN done
                ELSE IF c.status = "running" /\ c.owner = i /\ n[2] = "install"
                     THEN [job[i] EXCEPT !.exit = 137]
                ELSE job[i]]
    /\ UNCHANGED <<row, volume, nextJob, post, del, delDuring>>
    /\ UNCHANGED otherVars

\* ------------------------------------------------- daemon: POST /
\* router.post('/'): the request arrives; fetchServerConfig is awaited
PostCreate(s) ==
    /\ post[s] = "none"
    /\ post' = [post EXCEPT ![s] = "fetch"]
    /\ UNCHANGED <<row, containers, volume, job, nextJob, del, delDuring>>
    /\ UNCHANGED otherVars

\* fetchServerConfig settled (after its retries); on success the INSERT is awaited
PostFetched(s) ==
    /\ post[s] = "fetch"
    /\ \E ok \in BOOLEAN :
          post' = [post EXCEPT ![s] = IF ok THEN "insert" ELSE "done500"]
    /\ UNCHANGED <<row, containers, volume, job, nextJob, del, delDuring>>
    /\ UNCHANGED otherVars

\* INSERT INTO servers (docker_id NULL, state Installing) done; runInstallation
\* is started, not awaited, and 201 is answered
PostInserted(s) ==
    /\ post[s] = "insert"
    /\ nextJob <= MaxJobs
    /\ row' = [row EXCEPT ![s] = [present |-> TRUE, docker_id |-> Null,
                                  state |-> "installing"]]
    /\ job' = [job EXCEPT ![nextJob] = [IdleJob EXCEPT !.srv = s, !.path = "create",
                                           !.pc = "pull", !.run = "running"]]
    /\ nextJob' = nextJob + 1
    /\ post' = [post EXCEPT ![s] = "done201"]
    /\ UNCHANGED <<containers, volume, del, delDuring>>
    /\ UNCHANGED otherVars

\* UPDATE servers SET ... WHERE id = s: no row, no change
UpdateRow(s, dockerId, state) ==
    IF row[s].present
    THEN [row EXCEPT ![s] = [present |-> TRUE, docker_id |-> dockerId, state |-> state]]
    ELSE row

\* .then: createGameContainer (processVariables, docker.createContainer) settled
GameCreated(j) ==
    /\ job[j].pc = "game"
    /\ LET n == gameContainerName(job[j].srv) IN
       \E ok \in BOOLEAN :
          IF ok /\ containers[n].status = "absent"
          THEN /\ containers' = [containers EXCEPT
                                    ![n] = [status |-> "created", owner |-> j]]
               /\ job' = [job EXCEPT ![j].pc = "upd1"]
          ELSE /\ job' = [job EXCEPT ![j].pc = "fail_upd", ![j].failed = TRUE]
               /\ UNCHANGED containers
    /\ UNCHANGED <<row, volume, nextJob, post, del, delDuring>>
    /\ UNCHANGED otherVars

\* UPDATE servers SET docker_id = ?, state = Installed
GameRecorded(j) ==
    /\ job[j].pc = "upd1"
    /\ row' = UpdateRow(job[j].srv, j, "installed")
    /\ job' = [job EXCEPT ![j].pc = "upd2"]
    /\ UNCHANGED <<containers, volume, nextJob, post, del, delDuring>>
    /\ UNCHANGED otherVars

\* UPDATE servers SET state = Installed
GameInstalled(j) ==
    /\ job[j].pc = "upd2"
    /\ row' = UpdateRow(job[j].srv, row[job[j].srv].docker_id, "installed")
    /\ job' = [job EXCEPT ![j] = DoneJob]
    /\ UNCHANGED <<containers, volume, nextJob, post, del, delDuring>>
    /\ UNCHANGED otherVars

\* .catch: UPDATE servers SET state = InstallFailed
InstallFailed(j) ==
    /\ job[j].pc = "fail_upd"
    /\ row' = UpdateRow(job[j].srv, row[job[j].srv].docker_id, "install_failed")
    /\ job' = [job EXCEPT ![j] = DoneJob]
    /\ UNCHANGED <<containers, volume, nextJob, post, del, delDuring>>
    /\ UNCHANGED otherVars

\* ---------------------------------------------- daemon: DELETE /:id
\* router.delete('/:id'): the request arrives; SELECT docker_id is awaited
DeleteStart(s) ==
    /\ del[s].pc = "none"
    /\ del' = [del EXCEPT ![s].pc = "get"]
    /\ delDuring' = [delDuring EXCEPT ![s] = @ \/ Installing(s)]
    /\ UNCHANGED <<row, containers, volume, job, nextJob, post>>
    /\ UNCHANGED otherVars

\* the SELECT answered: 404 without a row; else the game container's removal
\* (when docker_id is set) or the volume's removal is awaited
DeleteGot(s) ==
    /\ del[s].pc = "get"
    /\ del' = [del EXCEPT ![s] =
          IF ~row[s].present THEN [pc |-> "done404", docker_id |-> Null]
          ELSE [pc |-> IF row[s].docker_id # Null THEN "rmcont" ELSE "rmvol",
                docker_id |-> row[s].docker_id]]
    /\ delDuring' = [delDuring EXCEPT ![s] = @ \/ Installing(s)]
    /\ UNCHANGED <<row, containers, volume, job, nextJob, post>>
    /\ UNCHANGED otherVars

\* getContainer(server.docker_id).remove({force, v}): removes the container
\* with that id if the engine holds it; an error is logged and ignored
RemoveById(s, dockerId) ==
    IF containers[gameContainerName(s)].owner = dockerId
    THEN [containers EXCEPT ![gameContainerName(s)] = Absent]
    ELSE containers

DeleteContainerRemoved(s) ==
    /\ del[s].pc = "rmcont"
    /\ containers' = RemoveById(s, del[s].docker_id)
    /\ del' = [del EXCEPT ![s].pc = "rmvol"]
    /\ delDuring' = [delDuring EXCEPT ![s] = @ \/ Installing(s)]
    /\ UNCHANGED <<row, volume, job, nextJob, post>>
    /\ UNCHANGED otherVars

\* fs.rm(volumePath, {recursive, force}); then the DELETE is awaited
DeleteVolumeRemoved(s) ==
    /\ del[s].pc = "rmvol"
    /\ \E ok \in BOOLEAN :
          /\ volume' = [volume EXCEPT ![s] = @ /\ ~ok]
          /\ del' = [del EXCEPT ![s].pc = IF ok THEN "delrow" ELSE "done500"]
    /\ delDuring' = [delDuring EXCEPT ![s] = @ \/ Installing(s)]
    /\ UNCHANGED <<row, containers, job, nextJob, post>>
    /\ UNCHANGED otherVars

\* DELETE FROM servers WHERE id = ?; 'Server deleted successfully'
DeleteRowDeleted(s) ==
    /\ del[s].pc = "delrow"
    /\ row' = [row EXCEPT ![s] = NoRow]
    /\ del' = [del EXCEPT ![s].pc = "done200"]
    /\ delDuring' = [delDuring EXCEPT ![s] = @ \/ Installing(s)]
    /\ UNCHANGED <<containers, volume, job, nextJob, post>>
    /\ UNCHANGED otherVars

\* ---------------------------------------- daemon: POST /:id/reinstall
\* the request arrives; fetchServerConfig is awaited
ReinstallStart(s) ==
    /\ nextJob <= MaxJobs
    /\ job' = [job EXCEPT ![nextJob] = [IdleJob EXCEPT !.srv = s, !.path = "reinstall",
                                           !.pc = "r_fetch"]]
    /\ nextJob' = nextJob + 1
    /\ UNCHANGED <<row, containers, volume, post, del, delDuring>>
    /\ UNCHANGED otherVars

\* fetchServerConfig settled: a failure goes to the catch block
ReinstallFetched(j) ==
    /\ job[j].pc = "r_fetch"
    /\ \E ok \in BOOLEAN :
          job' = [job EXCEPT ![j] = IF ok THEN [@ EXCEPT !.pc = "r_get"]
                                          ELSE [@ EXCEPT !.pc = "r_errored", !.failed = TRUE]]
    /\ UNCHANGED <<row, containers, volume, nextJob, post, del, delDuring>>
    /\ UNCHANGED otherVars

\* SELECT docker_id answered: 404 without a row
ReinstallGot(j) ==
    /\ job[j].pc = "r_get"
    /\ job' = [job EXCEPT ![j] =
          IF ~row[job[j].srv].present THEN DoneJob
          ELSE [@ EXCEPT !.pc = IF row[job[j].srv].docker_id # Null
                                    THEN "r_rmgame" ELSE "r_upd",
                         !.snap = row[job[j].srv].docker_id]]
    /\ UNCHANGED <<row, containers, volume, nextJob, post, del, delDuring>>
    /\ UNCHANGED otherVars

\* getContainer(server.docker_id).remove({force}), an error logged and ignored
ReinstallContainerRemoved(j) ==
    /\ job[j].pc = "r_rmgame"
    /\ containers' = RemoveById(job[j].srv, job[j].snap)
    /\ job' = [job EXCEPT ![j].pc = "r_upd"]
    /\ UNCHANGED <<row, volume, nextJob, post, del, delDuring>>
    /\ UNCHANGED otherVars

\* UPDATE servers SET state = Installing, docker_id = NULL; runInstallation starts
ReinstallMarked(j) ==
    /\ job[j].pc = "r_upd"
    /\ row' = UpdateRow(job[j].srv, Null, "installing")
    /\ job' = [job EXCEPT ![j].pc = "pull", ![j].run = "running"]
    /\ UNCHANGED <<containers, volume, nextJob, post, del, delDuring>>
    /\ UNCHANGED otherVars

\* UPDATE servers SET state = Installed; 'Server reinstallation completed'
ReinstallInstalled(j) ==
    /\ job[j].pc = "r_installed"
    /\ row' = UpdateRow(job[j].srv, row[job[j].srv].docker_id, "installed")
    /\ job' = [job EXCEPT ![j] = DoneJob]
    /\ UNCHANGED <<containers, volume, nextJob, post, del, delDuring>>
    /\ UNCHANGED otherVars

\* catch: UPDATE servers SET state = Errored; 500
ReinstallErrored(j) ==
    /\ job[j].pc = "r_errored"
    /\ row' = UpdateRow(job[j].srv, row[job[j].srv].docker_id, "errored")
    /\ job' = [job EXCEPT ![j] = DoneJob]
    /\ UNCHANGED <<containers, volume, nextJob, post, del, delDuring>>
    /\ UNCHANGED otherVars

\* ============================================================ panel
\* The panel's servers router.  The repositories run bun:sqlite statements
\* synchronously inside async functions: a repository call reads or writes
\* the table when it is called, and the caller goes on in a later microtask,
\* after whatever other request is pending.  randomUUID() gives each POST /
\* its own server id: the server of request r has id r.

NoServer == [present |-> FALSE, allocationId |-> 0, state |-> "none"]

IdleReq == [kind |-> "none", pc |-> "idle", a |-> 0, t |-> 0,
            seen |-> FALSE, cur |-> NoServer, node |-> FALSE, allocation |-> FALSE,
            act |-> "", st |-> ""]

PanelInit ==
    /\ pAlloc = [a \in Allocs |-> FALSE]
    /\ pServers = [t \in Reqs |-> NoServer]
    /\ preq = [r \in Reqs |-> IdleReq]

\* servers.findUnique(where, include): `include` is the second parameter, a
\* record of flags; the relations attached are node, unit and user, each when
\* include.<name> is truthy.  No branch attaches the allocation.
findUnique(t, include) ==
    [row |-> pServers[t],
     node |-> pServers[t].present /\ "node" \in include,
     allocation |-> FALSE]

\* The second argument DELETE /:id passes: { include: { node, allocation } },
\* an object whose only key is `include`.
DeleteIncludeArg == {"include"}

\* makeDaemonRequest(method, node, path): throws without node.fqdn, and when
\* the daemon cannot be reached or answers an error
makeDaemonRequest(node) == IF node THEN {"ok", "error"} ELSE {"error"}

\* ----------------------------------------------------- panel: POST /
\* the request arrives (schema parsed); nodes.findUnique is called
PCreateStart(r, a) ==
    /\ preq[r].kind = "none"
    /\ preq' = [preq EXCEPT ![r] = [IdleReq EXCEPT !.kind = "create", !.pc = "c_node",
                                                   !.a = a]]
    /\ UNCHANGED <<pAlloc, pServers>>
    /\ UNCHANGED <<daemonVars, wsVars, callVars>>

\* node checked (404 unknown, 400 offline); allocations.findUnique reads the row
PCreateNodeFound(r) ==
    /\ preq[r].pc = "c_node"
    /\ \E node \in {"online", "offline", "missing"} :
          preq' = [preq EXCEPT ![r] =
              IF node = "online"
              THEN [@ EXCEPT !.pc = "c_alloc", !.seen = pAlloc[preq[r].a]]
              ELSE [IdleReq EXCEPT !.kind = "create",
                       !.pc = IF node = "missing" THEN "done404" ELSE "done400"]]
    /\ UNCHANGED <<pAlloc, pServers>>
    /\ UNCHANGED <<daemonVars, wsVars, callVars>>

\* `if (allocation.assigned)` 400 'Allocation is already in use';
\* units.findUnique is called
PCreateAllocChecked(r) ==
    /\ preq[r].pc = "c_alloc"
    /\ preq' = [preq EXCEPT ![r] =
          IF preq[r].seen THEN [IdleReq EXCEPT !.kind = "create", !.pc = "done400"]
          ELSE [@ EXCEPT !.pc = "c_unit"]]
    /\ UNCHANGED <<pAlloc, pServers>>
    /\ UNCHANGED <<daemonVars, wsVars, callVars>>

\* unit checked (404); allocations.update({id}, {assigned: true}) is called:
\* it first reads the current row
PCreateUnitFound(r) ==
    /\ preq[r].pc = "c_unit"
    /\ \E unit \in BOOLEAN :
          preq' = [preq EXCEPT ![r] =
              IF unit THEN [@ EXCEPT !.pc = "c_assign"]
              ELSE [IdleReq EXCEPT !.kind = "create", !.pc = "done404"]]
    /\ UNCHANGED <<pAlloc, pServers>>
    /\ UNCHANGED <<daemonVars, wsVars, callVars>>

\* allocations.update: UPDATE allocations SET ..., assigned = ? WHERE id = ?,
\* whatever the row holds now
PCreateAssigned(r) ==
    /\ preq[r].pc = "c_assign"
    /\ pAlloc' = [pAlloc EXCEPT ![preq[r].a] = TRUE]
    /\ preq' = [preq EXCEPT ![r].pc = "c_insert"]
    /\ UNCHANGED pServers
    /\ UNCHANGED <<daemonVars, wsVars, callVars>>

\* servers.create: INSERT INTO servers (state 'creating'); then the create
\* request is sent to the daemon
PCreateInserted(r) ==
    /\ preq[r].pc = "c_insert"
    /\ pServers' = [pServers EXCEPT ![r] = [present |-> TRUE,
                        allocationId |-> preq[r].a, state |-> "creating"]]
    /\ preq' = [preq EXCEPT ![r].pc = "c_daemon"]
    /\ UNCHANGED pAlloc
    /\ UNCHANGED <<daemonVars, wsVars, callVars>>

\* the daemon answered: updateServerState('installing') reads the row; or the
\* request failed (or the answer's token differs): the cleanup begins
PCreateDaemonAnswered(r) ==
    /\ preq[r].pc = "c_daemon"
    /\ \E out \in makeDaemonRequest(TRUE) :
          preq' = [preq EXCEPT ![r] =
              IF out = "ok" /\ pServers[r].present
              THEN [@ EXCEPT !.pc = "c_state", !.cur = pServers[r]]
              ELSE [@ EXCEPT !.pc = "free"]]
    /\ UNCHANGED <<pAlloc, pServers>>
    /\ UNCHANGED <<daemonVars, wsVars, callVars>>

\* servers.update: UPDATE servers SET <the row as read>, state = ? WHERE id = ?
UpdateServer(t, cur, state) ==
    IF pServers[t].present
    THEN [pServers EXCEPT ![t] = [cur EXCEPT !.state = state]]
    ELSE pServers

\* updateServerState wrote 'installing'; 201
PCreateAnswered(r) ==
    /\ preq[r].pc = "c_state"
    /\ pServers' = UpdateServer(r, preq[r].cur, "installing")
    /\ preq' = [preq EXCEPT ![r] = [IdleReq EXCEPT !.kind = "create", !.pc = "done201"]]
    /\ UNCHANGED pAlloc
    /\ UNCHANGED <<daemonVars, wsVars, callVars>>

\* allocations.update({id}, {assigned: false}) wrote the row (POST /'s cleanup,
\* DELETE /:id's 'Free up the allocation'); servers.delete is called next
PFreed(r) ==
    /\ preq[r].pc = "free"
    /\ pAlloc' = [pAlloc EXCEPT ![preq[r].a] = FALSE]
    /\ preq' = [preq EXCEPT ![r].pc = "remove"]
    /\ UNCHANGED pServers
    /\ UNCHANGED <<daemonVars, wsVars, callVars>>

\* servers.delete: DELETE FROM servers WHERE id = ?, 'Server not found' when
\* no row was deleted.  POST / rethrows (500); DELETE /:id answers 204.
PRemoved(r) ==
    /\ preq[r].pc = "remove"
    /\ LET t == IF preq[r].kind = "create" THEN r ELSE preq[r].t IN
       /\ pServers' = [pServers EXCEPT ![t] = NoServer]
       /\ preq' = [preq EXCEPT ![r] =
             IF preq[r].kind = "delete" /\ pServers[t].present
             THEN [@ EXCEPT !.pc = "done204"]
             ELSE [IdleReq EXCEPT !.kind = preq[r].kind, !.pc = "done500"]]
    /\ UNCHANGED pAlloc
    /\ UNCHANGED <<daemonVars, wsVars, callVars>>

\* ---------------------------------------------- panel: DELETE /:id
\* the request arrives; servers.findUnique({id}, {include: {...}}) reads the row
PDeleteStart(r, t) ==
    /\ preq[r].kind = "none"
    /\ LET server == findUnique(t, DeleteIncludeArg) IN
       preq' = [preq EXCEPT ![r] = [IdleReq EXCEPT !.kind = "delete", !.pc = "d_found",
                   !.t = t, !.a = server.row.allocationId, !.cur = server.row,
                   !.node = server.node, !.allocation = server.allocation]]
    /\ UNCHANGED <<pAlloc, pServers>>
    /\ UNCHANGED <<daemonVars, wsVars, callVars>>

\* `if (!server)` 404; updateServerState('deleting') reads the row
PDeleteFound(r) ==
    /\ preq[r].pc = "d_found"
    /\ preq' = [preq EXCEPT ![r] =
          IF ~preq[r].cur.present THEN [IdleReq EXCEPT !.kind = "delete", !.pc = "done404"]
          ELSE IF ~pServers[preq[r].t].present
               THEN [IdleReq EXCEPT !.kind = "delete", !.pc = "done500"]
          ELSE [@ EXCEPT !.pc = "d_state", !.cur = pServers[preq[r].t]]]
    /\ UNCHANGED <<pAlloc, pServers>>
    /\ UNCHANGED <<daemonVars, wsVars, callVars>>

\* updateServerState wrote 'deleting'; makeDaemonRequest('delete', server.node)
PDeleteMarked(r) ==
    /\ preq[r].pc = "d_state"
    /\ pServers' = UpdateServer(preq[r].t, preq[r].cur, "deleting")
    /\ preq' = [preq EXCEPT ![r].pc = "d_daemon"]
    /\ UNCHANGED pAlloc
    /\ UNCHANGED <<daemonVars, wsVars, callVars>>

\* the daemon request settled, a failure logged and ignored;
\* `if (server.allocation)` the allocation is freed; then servers.delete
PDeleteDaemonAnswered(r) ==
    /\ preq[r].pc = "d_daemon"
    /\ \E out \in makeDaemonRequest(preq[r].node) :
          preq' = [preq EXCEPT ![r].pc = IF preq[r].allocation THEN "free" ELSE "remove"]
    /\ UNCHANGED <<pAlloc, pServers>>
    /\ UNCHANGED <<daemonVars, wsVars, callVars>>

\* ------------------------------------- panel: POST /:id/power/:action
\* the actions of a power request
PowerActions == {"start", "stop", "restart"}

\* what the daemon's GET /:id answers as the server's state
DaemonStates == {"installing", "installed"}

\* the state the route records before it asks the daemon
pendingState(action) ==
    CASE action = "start" -> "starting"
      [] action = "stop" -> "stopping"
      [] OTHER -> "restarting"

PendingStates == {pendingState(a) : a \in PowerActions}

\* the request arrives with a valid action; checkServerAccess calls
\* servers.findUnique({id}, {node: true, allocation: true})
PPowerStart(r, t, a) ==
    /\ preq[r].kind = "none"
    /\ LET server == findUnique(t, {"node", "allocation"}) IN
       preq' = [preq EXCEPT ![r] = [IdleReq EXCEPT !.kind = "power", !.pc = "w_found",
                   !.t = t, !.act = a, !.cur = server.row, !.node = server.node]]
    /\ UNCHANGED <<pAlloc, pServers>>
    /\ UNCHANGED <<daemonVars, wsVars, callVars>>

\* checkServerAccess: 'Server not found' (404), 'Access denied' (403); else
\* the daemon is asked for the server's status
PPowerFound(r) ==
    /\ preq[r].pc = "w_found"
    /\ \E allowed \in BOOLEAN :
          preq' = [preq EXCEPT ![r] =
              IF ~preq[r].cur.present THEN [IdleReq EXCEPT !.kind = "power", !.pc = "done404"]
              ELSE IF ~allowed THEN [IdleReq EXCEPT !.kind = "power", !.pc = "done403"]
              ELSE [@ EXCEPT !.pc = "w_status"]]
    /\ UNCHANGED <<pAlloc, pServers>>
    /\ UNCHANGED <<daemonVars, wsVars, callVars>>

\* checkServerAccess: the status request settled.  Answered:
\* updateServerState(status.state) reads the row.  Failed, or the row is
\* gone: caught, the status is 'unknown', and checkServerAccess returns.
PPowerStatus(r) ==
    /\ preq[r].pc = "w_status"
    /\ \E out \in makeDaemonRequest(preq[r].node), st \in DaemonStates :
          preq' = [preq EXCEPT ![r] =
              IF out = "ok" /\ pServers[preq[r].t].present
              THEN [@ EXCEPT !.pc = "w_sync", !.cur = pServers[preq[r].t], !.st = st]
              ELSE [@ EXCEPT !.pc = "w_read"]]
    /\ UNCHANGED <<pAlloc, pServers>>
    /\ UNCHANGED <<daemonVars, wsVars, callVars>>

\* checkServerAccess: updateServerState wrote the daemon's state
PPowerSynced(r) ==
    /\ preq[r].pc = "w_sync"
    /\ pServers' = UpdateServer(preq[r].t, preq[r].cur, preq[r].st)
    /\ preq' = [preq EXCEPT ![r].pc = "w_read"]
    /\ UNCHANGED pAlloc
    /\ UNCHANGED <<daemonVars, wsVars, callVars>>

\* updateServerState(server.id, pendingState) reads the row; servers.update
\* throws 'Server not found' when it is gone (404)
PPowerRead(r) ==
    /\ preq[r].pc = "w_read"
    /\ preq' = [preq EXCEPT ![r] =
          IF pServers[preq[r].t].present
          THEN [@ EXCEPT !.pc = "w_mark", !.cur = pServers[preq[r].t]]
          ELSE [IdleReq EXCEPT !.kind = "power", !.pc = "done404"]]
    /\ UNCHANGED <<pAlloc, pServers>>
    /\ UNCHANGED <<daemonVars, wsVars, callVars>>

\* updateServerState wrote the pending state; makeDaemonRequest('post',
\* server.node, .../power/<action>)
PPowerMarked(r) ==
    /\ preq[r].pc = "w_mark"
    /\ pServers' = UpdateServer(preq[r].t, preq[r].cur, pendingState(preq[r].act))
    /\ preq' = [preq EXCEPT ![r].pc = "w_daemon"]
    /\ UNCHANGED pAlloc
    /\ UNCHANGED <<daemonVars, wsVars, callVars>>

\* the power request settled.  Failed: the outer catch answers 500.
\* Answered: the daemon is asked for the updated state.
PPowerDaemonAnswered(r) ==
    /\ preq[r].pc = "w_daemon"
    /\ \E out \in makeDaemonRequest(preq[r].node) :
          preq' = [preq EXCEPT ![r] =
              IF out = "ok" THEN [@ EXCEPT !.pc = "w_get"]
              ELSE [IdleReq EXCEPT !.kind = "power", !.pc = "done500", !.t = preq[r].t]]
    /\ UNCHANGED <<pAlloc, pServers>>
    /\ UNCHANGED <<daemonVars, wsVars, callVars>>

\* the status request settled.  Answered: updateServerState(status.state)
\* reads the row.  Failed, or the row is gone: logged; 204.
PPowerGot(r) ==
    /\ preq[r].pc = "w_get"
    /\ \E out \in makeDaemonRequest(preq[r].node), st \in DaemonStates :
          preq' = [preq EXCEPT ![r] =
              IF out = "ok" /\ pServers[preq[r].t].present
              THEN [@ EXCEPT !.pc = "w_final", !.cur = pServers[preq[r].t], !.st = st]
              ELSE [IdleReq EXCEPT !.kind = "power", !.pc = "done204", !.t = preq[r].t]]
    /\ UNCHANGED <<pAlloc, pServers>>
    /\ UNCHANGED <<daemonVars, wsVars, callVars>>

\* updateServerState wrote the daemon's state; 204
PPowerAnswered(r) ==
    /\ preq[r].pc = "w_final"
    /\ pServers' = UpdateServer(preq[r].t, preq[r].cur, preq[r].st)
    /\ preq' = [preq EXCEPT ![r] =
          [IdleReq EXCEPT !.kind = "power", !.pc = "done204", !.t = preq[r].t]]
    /\ UNCHANGED pAlloc
    /\ UNCHANGED <<daemonVars, wsVars, callVars>>

PanelNext ==
    \E r \in Reqs :
        \/ \E a \in Allocs : PCreateStart(r, a)
        \/ PCreateNodeFound(r) \/ PCreateAllocChecked(r) \/ PCreateUnitFound(r)
        \/ PCreateAssigned(r) \/ PCreateInserted(r) \/ PCreateDaemonAnswered(r)
        \/ PCreateAnswered(r) \/ PFreed(r) \/ PRemoved(r)
        \/ \E t \in Reqs : PDeleteStart(r, t)
        \/ PDeleteFound(r) \/ PDeleteMarked(r) \/ PDeleteDaemonAnswered(r)
        \/ \E t \in Reqs, a \in PowerActions : PPowerStart(r, t, a)
        \/ PPowerFound(r) \/ PPowerStatus(r) \/ PPowerSynced(r) \/ PPowerRead(r)
        \/ PPowerMarked(r) \/ PPowerDaemonAnswered(r) \/ PPowerGot(r)
        \/ PPowerAnswered(r)

\* ================================================= WebSocketManager
\* In the text written to a shell the commands are named by the rank of
\* their send_command event among those of the connection; this names the
\* line `exec 1>/proc/${mainPid}/fd/1 2>/proc/${mainPid}/fd/2`.
RedirectLine == 0

\* One connection: the 'connection' handler's position (pc), the socket, what
\* the control plane said, the session and its streams, the stats timer, the
\* listeners registered on the socket, the timer callback and the message
\* handler in flight, and what was delivered to the client.
NoConn == [pc |-> "none", sock |-> "none", close |-> 0, srv |-> 0, tok |-> "",
           cp |-> "none", sess |-> FALSE, attached |-> FALSE,
           stream |-> "none", pending |-> {}, live |-> {}, cur |-> 0,
           timer |-> FALSE, timerL |-> FALSE, handlers |-> FALSE,
           tick |-> "none", task |-> [h \in Handlers |-> "none"],
           act |-> [h \in Handlers |-> ""], shells |-> 0, written |-> FALSE,
           backlog |-> <<>>,
           sent |-> {}, unauth |-> {}, ops |-> {}, dropped |-> FALSE,
           bad |-> {},
           arrived |-> 0, cmd |-> [h \in Handlers |-> 0], shell |-> <<>>]

Tokens == {"owner", "admin", "stranger"}

WsInit ==
    /\ conn = [c \in Conns |-> NoConn]
    /\ logBuffers = [s \in Servers |-> <<>>]
    /\ logged = [s \in Servers |-> 0]

\* socket.send(event): reaches the client of an OPEN socket.  `unauth` keeps
\* the events that reached a connection holding no authenticated session.
Deliver(cn, ev) ==
    IF cn.sock = "open"
    THEN [cn EXCEPT !.sent = @ \cup {ev},
                    !.unauth = IF cn.sess THEN @ ELSE @ \cup {ev}]
    ELSE cn

\* socket.close(code): an OPEN socket starts closing; 'close' is emitted later
Close(cn, code) ==
    [cn EXCEPT !.close = code, !.sock = IF cn.sock = "open" THEN "closing" ELSE @]

\* addLogToBuffer: buffer.push(log); if (buffer.length > MAX_LOGS) buffer.shift()
addLogToBuffer_DropNewest(buffer, log) ==
    IF Len(buffer) >= MAX_LOGS THEN buffer ELSE Append(buffer, log)
addLogToBuffer(buffer, log) ==
    LET pushed == Append(buffer, log)
    IN IF Len(pushed) > MAX_LOGS THEN Tail(pushed) ELSE pushed

\* The buffer side of broadcastToServer(internalId, log).  A line is named
\* by its rank among the lines broadcast to its server.
AppendLine(s) ==
    /\ logBuffers' = [logBuffers EXCEPT ![s] = addLogToBuffer(@, logged[s] + 1)]
    /\ logged' = [logged EXCEPT ![s] = @ + 1]

\* broadcastToServer(internalId, log): after addLogToBuffer, console_output
\* to every session of the registry with that internalId and `authenticated`
broadcastToServer_NoFilter(cs, internalId) ==
    [d \in Conns |-> Deliver(cs[d], "console_output")]
broadcastToServer(cs, internalId) ==
    [d \in Conns |-> IF cs[d].sess /\ cs[d].srv = internalId
                     THEN Deliver(cs[d], "console_output") ELSE cs[d]]

\* GET /servers/:internalId/validate on the control plane: 404 without the
\* server or its node, 403 unless the user is an admin or the owner
ValidateRoute(known, tok) ==
    IF ~known THEN "404"
    ELSE IF tok \in {"admin", "owner"} THEN "validated" ELSE "403"

\* validateToken: the response's data, or null when the request throws
\* (no answer, or an answer that is not 2xx)
validateToken_AnyAnswer(up, known, tok) == up
validateToken(up, known, tok) == up /\ ValidateRoute(known, tok) = "validated"

\* wsServer.on('connection'): 1008 without `server` or `token`; else
\* validateToken is awaited
Connect(c) ==
    /\ conn[c].pc = "none"
    /\ \E srv \in Servers \cup {0}, tok \in Tokens \cup {""} :
          conn' = [conn EXCEPT ![c] =
              IF srv = 0 \/ tok = ""
              THEN Close([NoConn EXCEPT !.sock = "open", !.srv = srv, !.tok = tok,
                                        !.pc = "refused"], 1008)
              ELSE [NoConn EXCEPT !.sock = "open", !.srv = srv, !.tok = tok,
                                  !.pc = "validate"]]
    /\ UNCHANGED <<daemonVars, panelVars, bufVars, callVars>>

\* validateToken settled: 1008 unless validation.validated; else
\* setupContainerSession awaits SELECT docker_id
Validated(c) ==
    /\ conn[c].pc = "validate"
    /\ \E up \in BOOLEAN, known \in BOOLEAN :
          conn' = [conn EXCEPT ![c] =
              LET cp == IF ~up THEN "unreachable"
                        ELSE IF ValidateRoute(known, conn[c].tok) = "validated"
                             THEN "validated" ELSE "refused"
              IN IF validateToken(up, known, conn[c].tok)
                 THEN [@ EXCEPT !.pc = "db", !.cp = cp]
                 ELSE Close([@ EXCEPT !.pc = "refused", !.cp = cp], 1008)]
    /\ UNCHANGED <<daemonVars, panelVars, bufVars, callVars>>

\* SELECT docker_id answered.  Without a docker_id: throw, caught, close(1011).
\* Else the session is built with authenticated = true and put in the
\* registry, and container.inspect() is awaited.
DbAnswered(c) ==
    /\ conn[c].pc = "db"
    /\ conn' = [conn EXCEPT ![c] =
          IF row[conn[c].srv].docker_id = Null
          THEN Close([@ EXCEPT !.pc = "failed"], 1011)
          ELSE [@ EXCEPT !.pc = "inspect", !.sess = TRUE]]
    /\ UNCHANGED <<daemonVars, panelVars, bufVars, callVars>>

\* container.inspect(): the state of the container the engine holds
Inspectable(s) == containers[gameContainerName(s)].status # "absent"
Running(s) == containers[gameContainerName(s)].status = "running"

\* the smallest stream id the session is not using
FreshStream(cn) == CHOOSE i \in StreamIds :
    /\ i \notin cn.pending \cup cn.live
    /\ \A k \in StreamIds : k < i => k \in cn.pending \cup cn.live

\* attachLogs: destroy session.logStream if set; containerRef.logs({follow},
\* callback) is called, the stream arrives in the callback
attachLogs(cn) ==
    LET destroyed == [cn EXCEPT !.live = @ \ {cn.cur}, !.cur = 0]
    IN [destroyed EXCEPT !.pending = @ \cup {FreshStream(destroyed)}]

\* startResourceMonitoring: setInterval(..., 2000) and
\* socket.on('close', () => clearInterval(interval)); a listener added after
\* 'close' was emitted is never called
startResourceMonitoring(cn) ==
    [cn EXCEPT !.timer = TRUE, !.timerL = (cn.sock # "closed")]

\* socket.on('message') and socket.on('close') are registered once
\* setupContainerSession has returned a session
RegisterHandlers(cn) == [cn EXCEPT !.handlers = (cn.sock # "closed")]

\* the logs field of the auth_success event: the literal []
AuthSuccessLogs(buffer) == <<>>

\* container.inspect() settled.  Failure: caught, close(1011), null returned.
\* Success: auth_success is sent, then attachLogs, startResourceMonitoring,
\* and the router registers its listeners.
Inspected(c) ==
    /\ conn[c].pc = "inspect"
    /\ \E ok \in BOOLEAN :
          conn' = [conn EXCEPT ![c] =
              IF ok /\ Inspectable(conn[c].srv)
              THEN RegisterHandlers(startResourceMonitoring(attachLogs(
                       Deliver([@ EXCEPT !.pc = "active", !.attached = TRUE,
                                         !.backlog = AuthSuccessLogs(logBuffers[conn[c].srv])],
                               "auth_success"))))
              ELSE Close([@ EXCEPT !.pc = "failed"], 1011)]
    /\ UNCHANGED <<daemonVars, panelVars, bufVars, callVars>>

\* The socket's 'close' event (the client went away, or the close the server
\* started has completed): the listeners registered by now run.
\* startResourceMonitoring's clears the interval; the router's ends the shell
\* stream, destroys session.logStream and deletes the registry entry.
CloseEvent(c) ==
    /\ conn[c].sock \in {"open", "closing"}
    /\ conn' = [conn EXCEPT ![c] =
          [@ EXCEPT !.sock = "closed",
                    !.timer = @ /\ ~conn[c].timerL,
                    !.stream = IF conn[c].handlers /\ @ = "live" THEN "ended" ELSE @,
                    !.shells = IF conn[c].handlers /\ conn[c].stream = "live"
                               THEN @ - 1 ELSE @,
                    !.live = IF conn[c].handlers THEN @ \ {conn[c].cur} ELSE @,
                    !.cur = IF conn[c].handlers THEN 0 ELSE @,
                    !.sess = @ /\ ~conn[c].handlers]]
    /\ UNCHANGED <<daemonVars, panelVars, bufVars, callVars>>

\* the callback of containerRef.logs: an error is broadcast as a log line;
\* else session.logStream = logStream and its 'data' listener is added
LogsOpened(c, i) ==
    /\ i \in conn[c].pending
    /\ \E ok \in BOOLEAN :
          IF ok
          THEN /\ conn' = [conn EXCEPT ![c] = [@ EXCEPT !.pending = @ \ {i},
                                                        !.live = @ \cup {i}, !.cur = i]]
               /\ UNCHANGED bufVars
          ELSE /\ conn' = broadcastToServer(
                             [conn EXCEPT ![c] = [@ EXCEPT !.pending = @ \ {i}]],
                             conn[c].srv)
               /\ logged[conn[c].srv] < MaxLines
               /\ AppendLine(conn[c].srv)
    /\ UNCHANGED <<daemonVars, panelVars, callVars>>

\* logStream.on('data'): a frame with content is broadcast to the server; a
\* chunk whose header cannot be read makes the read throw, which is caught
\* and logged (`bad` keeps what was dropped that way)
LogData(c, i) ==
    /\ i \in conn[c].live
    /\ Running(conn[c].srv)
    /\ \E chunk \in {"frame", "malformed"} :
          IF chunk = "malformed"
          THEN /\ conn' = [conn EXCEPT ![c].bad = @ \cup {"frame"}]
               /\ UNCHANGED bufVars
          ELSE /\ logged[conn[c].srv] < MaxLines
               /\ conn' = broadcastToServer(conn, conn[c].srv)
               /\ AppendLine(conn[c].srv)
    /\ UNCHANGED <<daemonVars, panelVars, callVars>>

\* the interval fires: container.inspect() is awaited
Tick(c) ==
    /\ conn[c].timer
    /\ conn[c].tick = "none"
    /\ conn' = [conn EXCEPT ![c].tick = "inspect"]
    /\ UNCHANGED <<daemonVars, panelVars, bufVars, callVars>>

\* inspect settled: running, container.stats() is awaited; else stats {state}
\* is sent; an error is logged
TickInspected(c) ==
    /\ conn[c].tick = "inspect"
    /\ \E ok \in BOOLEAN :
          conn' = [conn EXCEPT ![c] =
              IF ~(ok /\ Inspectable(conn[c].srv)) THEN [@ EXCEPT !.tick = "none"]
              ELSE IF Running(conn[c].srv) THEN [@ EXCEPT !.tick = "stats"]
              ELSE Deliver([@ EXCEPT !.tick = "none"], "stats")]
    /\ UNCHANGED <<daemonVars, panelVars, bufVars, callVars>>

\* stats settled: the stats event is sent; an error is logged
TickSampled(c) ==
    /\ conn[c].tick = "stats"
    /\ \E ok \in BOOLEAN :
          conn' = [conn EXCEPT ![c] =
              IF ok THEN Deliver([@ EXCEPT !.tick = "none"], "stats")
              ELSE [@ EXCEPT !.tick = "none"]]
    /\ UNCHANGED <<daemonVars, panelVars, bufVars, callVars>>

\* the engine: the game container's main process exits
GameExit(s) ==
    /\ Running(s)
    /\ containers' = [containers EXCEPT ![gameContainerName(s)].status = "exited"]
    /\ UNCHANGED <<row, volume, job, nextJob, post, del, delDuring>>
    /\ UNCHANGED otherVars

\* the 'message' listener exists on the socket
Receives_FromConnect(cn) ==
    cn.sock # "closed" /\ cn.pc \in {"validate", "db", "inspect", "active"}
Receives(cn) == cn.handlers

\* log streams the session holds or is opening, session.logStream apart
OtherStreams(cn) == (cn.live \ {cn.cur}) \cup cn.pending

\* handleSendCommand / handlePowerAction, up to their first await.
\* send_command: container.inspect() is awaited.  power_action: the
\* announcement is broadcast and container.start/stop/restart is awaited.
Handle(cs, c, h, kind, a) ==
    IF kind = "send_command"
    THEN [cs EXCEPT ![c] = [@ EXCEPT !.task[h] = "c_inspect", !.ops = @ \cup {kind},
                                     !.arrived = @ + 1, !.cmd[h] = cs[c].arrived + 1]]
    ELSE [broadcastToServer(cs, cs[c].srv) EXCEPT
             ![c] = [@ EXCEPT !.task[h] = "p_op", !.act[h] = a, !.ops = @ \cup {kind}]]

\* the 'message' listener's catch: the error is logged and the error event
\* sent (`bad` keeps what was dropped that way)
ParseFailed_Closes(cn) ==
    Close(Deliver([cn EXCEPT !.bad = @ \cup {"message"}], "error"), 1011)
ParseFailed(cn) == Deliver([cn EXCEPT !.bad = @ \cup {"message"}], "error")

\* A frame from the client.  Without a 'message' listener it is dropped.
\* Text that is not JSON makes JSON.parse throw: the error event is sent.
\* The listener is async: a frame is handled while the handlers of earlier
\* frames are still awaiting; h is the first free handler.
Frame(c, h, kinds) ==
    /\ conn[c].sock \in {"open", "closing"}
    /\ \E kind \in kinds, a \in PowerActions :
          IF ~Receives(conn[c])
          THEN /\ conn' = [conn EXCEPT ![c].dropped = TRUE]
               /\ UNCHANGED bufVars
          ELSE /\ conn[c].task[h] = "none"
               /\ \A k \in Handlers : k < h => conn[c].task[k] # "none"
               /\ kind = "send_command" => conn[c].arrived < MaxCommands
               /\ kind = "power_action" =>
                     /\ logged[conn[c].srv] < MaxLines
                     /\ a # "stop" => Cardinality(OtherStreams(conn[c])) < MaxStreams
               /\ conn' = IF kind = "malformed"
                          THEN [conn EXCEPT ![c] = ParseFailed(@)]
                          ELSE Handle(conn, c, h, kind, a)
               /\ IF kind = "power_action"
                  THEN AppendLine(conn[c].srv) ELSE UNCHANGED bufVars
    /\ UNCHANGED <<daemonVars, panelVars, callVars>>

Message(c, h) == Frame(c, h, {"send_command", "power_action", "malformed"})

\* handleSendCommand, `if (!containerInfo.State.Running)`: the error event
\* "Container is not running" is sent and the handler returns
ContainerNotRunning_Exec(cn, h) == [cn EXCEPT !.task[h] = "c_exec"]
ContainerNotRunning(cn, h) == Deliver([cn EXCEPT !.task[h] = "none"], "error")

\* session.stream.write(text) for each text of the list: it reaches the shell
\* of a stream that is live
Write(cn, texts) ==
    IF cn.stream = "live"
    THEN [cn EXCEPT !.written = TRUE, !.shell = @ \o texts]
    ELSE cn

\* handleSendCommand: inspect settled.  Not running: the error event.  No
\* usable shell stream: container.exec({Cmd: ['sh']}) is awaited.  Else the
\* command is written to the stream.  A stream that was ended may or may not
\* be destroyed yet.
CmdInspected(c, h) ==
    /\ conn[c].task[h] = "c_inspect"
    /\ \E ok \in BOOLEAN, destroyed \in BOOLEAN :
          conn' = [conn EXCEPT ![c] =
              IF ~ok
              THEN Deliver([@ EXCEPT !.task[h] = "none"], "error")
              ELSE IF ~Running(conn[c].srv)
              THEN ContainerNotRunning(@, h)
              ELSE IF conn[c].stream = "none" \/ (conn[c].stream = "ended" /\ destroyed)
              THEN [@ EXCEPT !.task[h] = "c_exec"]
              ELSE Write([@ EXCEPT !.task[h] = "none"], <<conn[c].cmd[h]>>)]
    /\ UNCHANGED <<daemonVars, panelVars, bufVars, callVars>>

\* container.exec settled: session.exec = exec; exec.start({hijack}) is awaited
CmdExecCreated(c, h) ==
    /\ conn[c].task[h] = "c_exec"
    /\ \E ok \in BOOLEAN :
          conn' = [conn EXCEPT ![c] =
              IF ok /\ Inspectable(conn[c].srv)
              THEN [@ EXCEPT !.task[h] = "c_start"]
              ELSE Deliver([@ EXCEPT !.task[h] = "none"], "error")]
    /\ UNCHANGED <<daemonVars, panelVars, bufVars, callVars>>

\* exec.start settled: a new shell runs in the container and session.stream
\* is set to its stream; findMainProcess is awaited
CmdExecStarted(c, h) ==
    /\ conn[c].task[h] = "c_start"
    /\ \E ok \in BOOLEAN :
          conn' = [conn EXCEPT ![c] =
              IF ok /\ Running(conn[c].srv)
              THEN [@ EXCEPT !.task[h] = "c_ps", !.stream = "live", !.shells = @ + 1,
                             !.shell = <<>>]
              ELSE Deliver([@ EXCEPT !.task[h] = "none"], "error")]
    /\ UNCHANGED <<daemonVars, panelVars, bufVars, callVars>>

\* findMainProcess settled (a pid or null, it never throws): the redirect
\* (with a pid) and the command are written to session.stream
CmdWritten(c, h) ==
    /\ conn[c].task[h] = "c_ps"
    /\ \E mainPid \in BOOLEAN :
          conn' = [conn EXCEPT ![c] =
              Write([@ EXCEPT !.task[h] = "none"],
                    IF mainPid THEN <<RedirectLine, conn[c].cmd[h]>>
                    ELSE <<conn[c].cmd[h]>>)]
    /\ UNCHANGED <<daemonVars, panelVars, bufVars, callVars>>

\* container.start / stop / restart resolve on 204.  The engine answers 304
\* to a start of a running container and to a stop of one that is not
\* running, and dockerode rejects on 304 ("container already started",
\* "container already stopped").
EngineAccepts(a, status) ==
    CASE a = "start" -> status \in {"created", "exited"}
      [] a = "stop" -> status = "running"
      [] OTHER -> status # "absent"

\* what container.start/stop/restart leaves the container in
PowerResult(a) == IF a = "stop" THEN "exited" ELSE "running"

\* handlePowerAction's catch block: the error line is broadcast and the
\* error event is sent on the session's socket
PowerFailed_Swallowed(cs, c, h) ==
    [cs EXCEPT ![c] = [@ EXCEPT !.task[h] = "none", !.act[h] = ""]]
PowerFailed(cs, c, h) ==
    [broadcastToServer(cs, cs[c].srv) EXCEPT
        ![c] = Deliver([@ EXCEPT !.task[h] = "none", !.act[h] = ""], "error")]

\* handlePowerAction: the engine call settled.  Failure: the catch block.
\* Success: attachLogs after start and restart, then container.inspect() is
\* awaited.
PowerDone(c, h) ==
    /\ conn[c].task[h] = "p_op"
    /\ LET s == conn[c].srv
           a == conn[c].act[h] IN
       \E ok \in BOOLEAN :
          IF ok /\ EngineAccepts(a, containers[gameContainerName(s)].status)
          THEN /\ a # "stop" => Cardinality(OtherStreams(conn[c])) < MaxStreams
               /\ containers' = [containers EXCEPT
                      ![gameContainerName(s)].status = PowerResult(a)]
               /\ conn' = [conn EXCEPT ![c] =
                      IF a = "stop" THEN [@ EXCEPT !.task[h] = "p_inspect"]
                      ELSE attachLogs([@ EXCEPT !.task[h] = "p_inspect"])]
               /\ UNCHANGED bufVars
          ELSE /\ logged[s] < MaxLines
               /\ conn' = PowerFailed(conn, c, h)
               /\ AppendLine(s)
               /\ UNCHANGED containers
    /\ UNCHANGED <<row, volume, job, nextJob, post, del, delDuring, panelVars, callVars>>

\* handlePowerAction: inspect settled: power_status is sent on the session's
\* socket; a failure goes to the catch block
PowerInspected(c, h) ==
    /\ conn[c].task[h] = "p_inspect"
    /\ \E ok \in BOOLEAN :
          IF ok /\ Inspectable(conn[c].srv)
          THEN /\ conn' = [conn EXCEPT ![c] =
                      Deliver([@ EXCEPT !.task[h] = "none", !.act[h] = ""], "power_status")]
               /\ UNCHANGED bufVars
          ELSE /\ logged[conn[c].srv] < MaxLines
               /\ conn' = PowerFailed(conn, c, h)
               /\ AppendLine(conn[c].srv)
    /\ UNCHANGED <<daemonVars, panelVars, callVars>>

\* The log streams of the sessions of server s that are live: each is a
\* subscription of its own against the engine (containerRef.logs, follow)
Subscriptions(s) ==
    {sub \in Conns \X StreamIds :
        conn[sub[1]].srv = s /\ sub[2] \in conn[sub[1]].live}

\* addLogToBuffer called n times, for the broadcasts from + 1 .. from + n
RECURSIVE Appended(_, _, _)
Appended(buffer, from, n) ==
    IF n = 0 THEN buffer
    ELSE Appended(addLogToBuffer(buffer, from + 1), from + 1, n - 1)

\* The container of server s writes a line: the engine sends the frame on
\* every subscription, and the 'data' listener of each stream runs
\* broadcastToServer(session.internalId, content) with it.
GameLine(s) ==
    /\ Running(s)
    /\ LET n == Cardinality(Subscriptions(s)) IN
          /\ n > 0
          /\ logged[s] + n <= MaxLines
          /\ conn' = broadcastToServer(conn, s)
          /\ logBuffers' = [logBuffers EXCEPT ![s] = Appended(@, logged[s], n)]
          /\ logged' = [logged EXCEPT ![s] = @ + n]
    /\ UNCHANGED <<daemonVars, panelVars, callVars>>

\* runInstallation's stdout Writable: a non-empty chunk of the install
\* container's output is sent as console_output to every client of wsServer
\* whose readyState is OPEN
InstallStdout(j) ==
    /\ job[j].pc = "wait"
    /\ containers[installContainerName(job[j].srv)] = [status |-> "running", owner |-> j]
    /\ Len(job[j].output) < MaxChunks
    /\ job' = [job EXCEPT ![j].output = Append(@, "stdout")]
    /\ conn' = [d \in Conns |-> IF conn[d].sock = "open"
                                THEN Deliver(conn[d], "console_output") ELSE conn[d]]
    /\ UNCHANGED <<row, containers, volume, nextJob, post, del, delDuring>>
    /\ UNCHANGED <<panelVars, bufVars, callVars>>

\* runInstallation's stderr Writable: a non-empty chunk is added to `output`
InstallStderr(j) ==
    /\ job[j].pc = "wait"
    /\ containers[installContainerName(job[j].srv)] = [status |-> "running", owner |-> j]
    /\ Len(job[j].output) < MaxChunks
    /\ job' = [job EXCEPT ![j].output = Append(@, "stderr")]
    /\ UNCHANGED <<row, containers, volume, nextJob, post, del, delDuring>>
    /\ UNCHANGED otherVars

\* The daemon as the WebSocketManager finds it: a server the router never
\* created, one still installing, or one installed whose game container is
\* gone, created, stopped or running.
WsDaemonInit ==
    /\ \E ids \in [Servers -> {Null} \cup Jobs] :
          /\ row = [s \in Servers |->
                IF ids[s] = Null THEN [present |-> TRUE, docker_id |-> Null, state |-> "installing"]
                ELSE [present |-> TRUE, docker_id |-> ids[s], state |-> "installed"]]
          /\ \E st \in [Servers -> {"absent", "created", "exited", "running"}] :
                containers = [n \in ContainerNames |->
                    IF n[2] = "game" /\ ids[n[1]] # Null /\ st[n[1]] # "absent"
                    THEN [status |-> st[n[1]], owner |-> ids[n[1]]] ELSE Absent]
    /\ volume = [s \in Servers |-> TRUE]
    /\ job = [j \in Jobs |-> IdleJob]
    /\ nextJob = 1
    /\ post = [s \in Servers |-> "none"]
    /\ del = [s \in Servers |-> [pc |-> "none", docker_id |-> Null]]
    /\ delDuring = [s \in Servers |-> FALSE]

\* the events of the connections C, at most H handlers of a connection
\* awaiting at a time
SessionStep(C) ==
    \E c \in C :
        Connect(c) \/ Validated(c) \/ DbAnswered(c) \/ Inspected(c) \/ CloseEvent(c)

LogStep(C) ==
    \E c \in C, i \in StreamIds : LogsOpened(c, i) \/ LogData(c, i)

TickStep(C) ==
    \E c \in C : Tick(c) \/ TickInspected(c) \/ TickSampled(c)

CommandStep(C, H) ==
    \E c \in C, h \in H :
        \/ Message(c, h)
        \/ CmdInspected(c, h) \/ CmdExecCreated(c, h) \/ CmdExecStarted(c, h)
        \/ CmdWritten(c, h)
        \/ PowerDone(c, h) \/ PowerInspected(c, h)

PowerStep(C, H) ==
    \E c \in C, h \in H :
        Frame(c, h, {"power_action"}) \/ PowerDone(c, h) \/ PowerInspected(c, h)

WsNext ==
    \/ SessionStep({1}) \/ LogStep({1}) \/ TickStep({1}) \/ CommandStep({1}, {1})
    \/ \E s \in Servers : GameExit(s)

\* ================================================ fetchServerConfig
\* One call: the loop's `attempt`, the requests made, the timer of the
\* backoff (`left` ms to go, `slept` ms gone), the delays that have elapsed,
\* the failed requests, and the request whose data was returned.
IdleFetch == [pc |-> "idle", attempt |-> 0, requests |-> 0, failed |-> 0,
              left |-> 0, slept |-> 0, waited |-> <<>>, config |-> 0]

\* nothing is being called
CallInit ==
    /\ fetch = [k \in Fetches |-> IdleFetch]
    /\ arg = <<>>
    /\ ret = <<>>

\* What GET /api/servers/:internalId/config answers through axios: the
\* configuration with status 200, or a rejection (404, 500, no answer in 10 s)
ConfigAnswers == {"200", "error"}

\* setTimeout(resolve, 1000 * attempt)
Backoff_Fixed(attempt) == 1000
Backoff(attempt) == 1000 * attempt

\* fetchServerConfig is called: attempt = 1, axios.get is awaited
FetchCall(k) ==
    /\ fetch[k].pc = "idle"
    /\ fetch' = [fetch EXCEPT ![k] = [@ EXCEPT !.pc = "request", !.attempt = 1,
                                               !.requests = 1]]
    /\ UNCHANGED <<daemonVars, panelVars, wsVars, arg, ret>>

\* the request settled.  Status 200: response.data is returned.  Rejected:
\* the backoff timer is set when attempt < maxRetries, else the loop ends
\* and the function throws.  Resolved with another status: the loop goes on
\* at once.
FetchAnswered(k) ==
    /\ fetch[k].pc = "request"
    /\ \E out \in ConfigAnswers :
          fetch' = [fetch EXCEPT ![k] =
              IF out = "200"
              THEN [@ EXCEPT !.pc = "returned", !.config = fetch[k].requests]
              ELSE IF @.attempt >= maxRetries
              THEN [@ EXCEPT !.pc = "threw", !.failed = @ + 1]
              ELSE IF out = "error"
              THEN [@ EXCEPT !.pc = "wait", !.failed = @ + 1,
                             !.left = Backoff(fetch[k].attempt), !.slept = 0]
              ELSE [@ EXCEPT !.failed = @ + 1, !.attempt = @ + 1, !.requests = @ + 1]]
    /\ UNCHANGED <<daemonVars, panelVars, wsVars, arg, ret>>

\* a second passes; when the timer's delay is over the promise resolves,
\* attempt++ and the next axios.get is awaited
FetchTimer(k) ==
    /\ fetch[k].pc = "wait"
    /\ fetch' = [fetch EXCEPT ![k] =
          IF @.left > 1000
          THEN [@ EXCEPT !.left = @ - 1000, !.slept = @ + 1000]
          ELSE [@ EXCEPT !.pc = "request", !.left = 0, !.slept = 0,
                         !.waited = Append(@, fetch[k].slept + 1000),
                         !.attempt = @ + 1, !.requests = @ + 1]]
    /\ UNCHANGED <<daemonVars, panelVars, wsVars, arg, ret>>

FetchNext == \E k \in Fetches : FetchCall(k) \/ FetchAnswered(k) \/ FetchTimer(k)

\* ================================================== writeConfigFiles
\* A path is a sequence of pieces: the separators "/" and "\", the piece
\* ".." and a name piece "a"; pieces between two "/" form one segment, so
\* <<"..", "a">> is the file name `..a` and <<"..", "\\", "a">> the file name
\* `..\a` (POSIX: "\" separates nothing).
PathPieces == {"..", "a", "/", "\\"}

ConfigPaths == UNION {[1..n -> PathPieces] : n \in 0..MaxPathLen}

\* path.resolve(`${config.volumesDirectory}/${safeServerId}`)
volumePath == <<"/", "volumes", "/", "server">>

\* the segments of a path, split at "/" (empty segments included)
RECURSIVE Segments(_)
Segments(p) ==
    IF p = <<>> THEN << <<>> >>
    ELSE LET rest == Segments(Tail(p)) IN
         IF Head(p) = "/" THEN << <<>> >> \o rest
         ELSE << <<Head(p)>> \o Head(rest) >> \o Tail(rest)

\* posix normalizeString: "." and empty segments go, ".." takes the segment
\* before it away, and stays when there is none and the path is relative
RECURSIVE normalizeString(_, _, _)
normalizeString(segs, res, allowAboveRoot) ==
    IF segs = <<>> THEN res
    ELSE LET seg == Head(segs)
             next == IF seg = <<>> \/ seg = <<".">> THEN res
                     ELSE IF seg = <<"..">>
                     THEN IF res # <<>> /\ res[Len(res)] # <<"..">>
                          THEN SubSeq(res, 1, Len(res) - 1)
                          ELSE IF allowAboveRoot THEN Append(res, seg) ELSE res
                     ELSE Append(res, seg)
         IN normalizeString(Tail(segs), next, allowAboveRoot)

\* segments joined with "/"
RECURSIVE JoinSegments(_)
JoinSegments(segs) ==
    IF segs = <<>> THEN <<>>
    ELSE IF Len(segs) = 1 THEN Head(segs)
    ELSE Head(segs) \o <<"/">> \o JoinSegments(Tail(segs))

\* path.normalize (posix)
normalize(p) ==
    IF p = <<>> THEN <<".">>
    ELSE LET isAbsolute == Head(p) = "/"
             trailingSeparator == p[Len(p)] = "/"
             path == JoinSegments(normalizeString(Segments(p), <<>>, ~isAbsolute))
         IN IF path = <<>>
            THEN IF isAbsolute THEN <<"/">>
                 ELSE IF trailingSeparator THEN <<".", "/">> ELSE <<".">>
            ELSE (IF isAbsolute THEN <<"/">> ELSE <<>>) \o path
                 \o (IF trailingSeparator THEN <<"/">> ELSE <<>>)

\* .replace(/^(\.\.[\/\\])+/, ''): the leading run of ".." pieces that are
\* each followed by "/" or "\" is removed
RECURSIVE StripLeadingDotDots(_)
StripLeadingDotDots(p) ==
    IF Len(p) >= 2 /\ p[1] = ".." /\ p[2] \in {"/", "\\"}
    THEN StripLeadingDotDots(SubSeq(p, 3, Len(p)))
    ELSE p

\* path.join(a, b) (posix): the non-empty arguments joined with "/", normalized
join(a, b) == normalize(IF b = <<>> THEN a ELSE a \o <<"/">> \o b)

\* writeConfigFiles: safePath and fullPath of one declared file
safePath(filePath) == StripLeadingDotDots(normalize(filePath))
fullPath(filePath) == join(volumePath, safePath(filePath))

\* the directories and the name a path leads through, from the root
Location(p) == normalizeString(Segments(p), <<>>, FALSE)

\* fs.writeFile(fullPath, ...) for the declared file path `arg`
WriteConfigFile ==
    /\ ret = <<>>
    /\ ret' = <<fullPath(arg)>>
    /\ UNCHANGED <<daemonVars, panelVars, wsVars, fetch, arg>>

\* ----------------------------------------- the log stream's data handler
\* A chunk is a sequence of bytes.  The engine's frame: byte 0 the stream
\* type, bytes 1..3 zero, bytes 4..7 the payload length (big-endian), then
\* the payload.
StreamTypes == {0, 1, 2}

PayloadBytes == {32, 104}

Payloads == UNION {[1..n -> PayloadBytes] : n \in 0..MaxPayload}

UInt32BE(n) ==
    <<(n \div 16777216) % 256, (n \div 65536) % 256, (n \div 256) % 256, n % 256>>

EngineFrame(type, payload) == <<type, 0, 0, 0>> \o UInt32BE(Len(payload)) \o payload

\* chunk.readUInt8(offset), chunk.readUInt32BE(offset): <<value>>, or <<>>
\* when the read is out of range (the call throws)
readUInt8(chunk, offset) ==
    IF offset + 1 > Len(chunk) THEN <<>> ELSE <<chunk[offset + 1]>>

readUInt32BE(chunk, offset) ==
    IF offset + 4 > Len(chunk) THEN <<>>
    ELSE <<chunk[offset + 1] * 16777216 + chunk[offset + 2] * 65536
           + chunk[offset + 3] * 256 + chunk[offset + 4]>>

\* chunk.slice(start, end): the indices are clamped to the chunk
slice(chunk, start, end) ==
    LET lo == IF start > Len(chunk) THEN Len(chunk) ELSE start
        hi == IF end > Len(chunk) THEN Len(chunk) ELSE end
    IN IF hi <= lo THEN <<>> ELSE SubSeq(chunk, lo + 1, hi)

\* toString('utf8') of the bytes the model has: a space, an h, and the
\* control characters of header bytes
ControlChars == <<"U+0000", "U+0001", "U+0002", "U+0003", "U+0004",
                  "U+0005", "U+0006", "U+0007", "U+0008">>

toString(bytes) ==
    [i \in 1..Len(bytes) |->
        IF bytes[i] = 32 THEN " "
        ELSE IF bytes[i] = 104 THEN "h"
        ELSE ControlChars[bytes[i] + 1]]

WhiteSpace == {" ", "\t", "\n", "\r", "\f"}

RECURSIVE trimStart(_)
trimStart(s) ==
    IF s # <<>> /\ Head(s) \in WhiteSpace THEN trimStart(Tail(s)) ELSE s

RECURSIVE trimEnd(_)
trimEnd(s) ==
    IF s # <<>> /\ s[Len(s)] \in WhiteSpace
    THEN trimEnd(SubSeq(s, 1, Len(s) - 1)) ELSE s

\* String.prototype.trim: both ends
trim_EndOnly(s) == trimEnd(s)
trim(s) == trimEnd(trimStart(s))

\* logStream.on('data', chunk): the lines it hands to broadcastToServer, each
\* with its LogType; none when a read throws (caught and logged) or the
\* content is empty
onData(chunk) ==
    LET headerLength == 8
        logType == readUInt8(chunk, 0)
        contentLength == readUInt32BE(chunk, 4)
    IN IF logType = <<>> \/ contentLength = <<>> THEN <<>>
       ELSE LET content ==
                    trim(toString(slice(chunk, headerLength,
                                        headerLength + contentLength[1])))
            IN IF content # <<>>
               THEN <<[type |-> IF logType[1] = 1 THEN "INFO" ELSE "ERROR",
                       log |-> content]>>
               ELSE <<>>

\* the streams of frames the engine writes, and the reads a stream can
\* arrive in: the bytes cut at up to MaxCuts places
FrameStreams ==
    UNION {[1..n -> [type : StreamTypes, payload : Payloads]] : n \in 1..MaxFrames}

RECURSIVE Bytes(_)
Bytes(frames) ==
    IF frames = <<>> THEN <<>>
    ELSE EngineFrame(Head(frames).type, Head(frames).payload) \o Bytes(Tail(frames))

RECURSIVE CutAt(_, _, _)
CutAt(bytes, cuts, from) ==
    IF cuts = {} THEN <<SubSeq(bytes, from + 1, Len(bytes))>>
    ELSE LET c == CHOOSE m \in cuts : \A n \in cuts : m <= n
         IN <<SubSeq(bytes, from + 1, c)>> \o CutAt(bytes, cuts \ {c}, c)

Readings(frames) ==
    {CutAt(Bytes(frames), cuts, 0) :
        cuts \in {cs \in SUBSET (1..(Len(Bytes(frames)) - 1)) : Cardinality(cs) <= MaxCuts}}
    \cup {[i \in 1..Len(frames) |-> EngineFrame(frames[i].type, frames[i].payload)]}

\* the next 'data' event of the stream: arg holds the frames written and the
\* reads they arrive in, ret the reads handled and the lines emitted
Data ==
    /\ arg # <<>> /\ "reads" \in DOMAIN arg
    /\ LET done == IF ret = <<>> THEN 0 ELSE ret[1].reads
           lines == IF ret = <<>> THEN <<>> ELSE ret[1].lines
       IN /\ done < Len(arg.reads)
          /\ ret' = <<[reads |-> done + 1,
                       lines |-> lines \o onData(arg.reads[done + 1])]>>
    /\ UNCHANGED <<daemonVars, panelVars, wsVars, fetch, arg>>

\* --------------------------------------------------- calculateCPUPercent
\* The counters of a stats sample, and the numbers of CPUs
UsageCounters == {0, 200, 400}

SystemCounters == {0, 1000, 2000}

CpuCounts == {1, 2, 4}

StatsSamples ==
    [total_usage : UsageCounters, pre_total_usage : UsageCounters \ {400},
     system_cpu_usage : SystemCounters, pre_system_cpu_usage : SystemCounters \ {2000},
     online_cpus : CpuCounts]

RECURSIVE gcd(_, _)
gcd(a, b) == IF b = 0 THEN a ELSE gcd(b, a % b)

\* a number as a fraction in lowest terms, the denominator positive
Number(num, den) ==
    LET g == gcd(IF num < 0 THEN -num ELSE num, den)
    IN [num |-> num \div g, den |-> den \div g]

\* a variant that looks at systemDelta only
calculateCPUPercent_SystemOnly(stats) ==
    LET cpuDelta == stats.total_usage - stats.pre_total_usage
        systemDelta == stats.system_cpu_usage - stats.pre_system_cpu_usage
        cpuCount == stats.online_cpus
    IN IF systemDelta > 0
       THEN Number(cpuDelta * cpuCount * 100, systemDelta)
       ELSE Number(0, 1)

calculateCPUPercent(stats) ==
    LET cpuDelta == stats.total_usage - stats.pre_total_usage
        systemDelta == stats.system_cpu_usage - stats.pre_system_cpu_usage
        cpuCount == stats.online_cpus
    IN IF systemDelta > 0 /\ cpuDelta > 0
       THEN Number(cpuDelta * cpuCount * 100, systemDelta)
       ELSE Number(0, 1)

\* calculateCPUPercent is applied to the sample
Sample ==
    /\ ret = <<>>
    /\ ret' = <<calculateCPUPercent(arg)>>
    /\ UNCHANGED <<daemonVars, panelVars, wsVars, fetch, arg>>

\* ---------------------------------- functions applied to an argument
\* Templates, and the variable definitions processVariables is studied with
TemplateChars == {"%", "a", "b"}

Templates == UNION {[1..n -> TemplateChars] : n \in 0..MaxTemplateLen}

VariableDefs == [name : {<<"a">>, <<"B">>},
                 defaultValue : {<<"x">>, <<"%", "b", "%">>},
                 currentValue : {<<>>, << <<>> >>},
                 rules : {<<[kind |-> "string", n |-> 0]>>, <<[kind |-> "max", n |-> 1]>>}]

VariableLists == UNION {[1..n -> VariableDefs] : n \in 0..MaxVariables}

\* processVariables(input, variables) for arg = [input, variables]
Process ==
    /\ ret = <<>>
    /\ ret' = <<processVariables(arg.input, arg.variables)>>
    /\ UNCHANGED <<daemonVars, panelVars, wsVars, fetch, arg>>

\* validateVariableValue(value, rules) for arg = [value, rules]
Validate ==
    /\ ret = <<>>
    /\ ret' = <<validateVariableValue(arg.value, arg.rules)>>
    /\ UNCHANGED <<daemonVars, panelVars, wsVars, fetch, arg>>

\* --------------------------------------------------- specifications
\* The steps of the jobs that decide what the router does next; the output
\* an install container writes is followed in CreateNext.
RunNext ==
    \E j \in Jobs :
        \/ RunPulled(j) \/ RunMkdir(j) \/ RunConfigWritten(j) \/ RunScriptWritten(j)
        \/ RunCreated(j) \/ RunAttached(j) \/ RunStarted(j) \/ RunWaited(j)
        \/ RunFinally(j)
        \/ GameCreated(j) \/ GameRecorded(j) \/ GameInstalled(j) \/ InstallFailed(j)
        \/ ReinstallFetched(j) \/ ReinstallGot(j) \/ ReinstallContainerRemoved(j)
        \/ ReinstallMarked(j) \/ ReinstallInstalled(j) \/ ReinstallErrored(j)

RouterNext ==
    \E s \in Servers :
        \/ PostCreate(s) \/ PostFetched(s) \/ PostInserted(s)
        \/ DeleteStart(s) \/ DeleteGot(s) \/ DeleteContainerRemoved(s)
        \/ DeleteVolumeRemoved(s) \/ DeleteRowDeleted(s)
        \/ ReinstallStart(s)
        \/ InstallExit(s)

Init == DaemonInit /\ PanelInit /\ WsInit /\ CallInit

Next == RunNext \/ RouterNext

\* The daemon's servers router, the installation pipeline and the engine.
Spec == Init /\ [][Next]_vars

\* The panel's servers router against its allocations and servers tables.
SpecPanel == Init /\ [][PanelNext]_vars

\* The connection handler of the WebSocketManager, up to the session
ConnNext == SessionStep({1})

\* POST / and the installation it starts
CreateNext ==
    \/ \E s \in Servers :
          PostCreate(s) \/ PostFetched(s) \/ PostInserted(s) \/ InstallExit(s)
    \/ \E j \in Jobs :
          \/ RunPulled(j) \/ RunMkdir(j) \/ RunConfigWritten(j) \/ RunScriptWritten(j)
          \/ RunCreated(j) \/ RunAttached(j) \/ RunStarted(j) \/ RunWaited(j)
          \/ RunFinally(j) \/ InstallStdout(j) \/ InstallStderr(j)
          \/ GameCreated(j) \/ GameRecorded(j) \/ GameInstalled(j) \/ InstallFailed(j)

\* Servers being created while clients connect to the daemon's wsServer.
SpecBroadcast == Init /\ [][CreateNext \/ ConnNext]_vars

\* The WebSocketManager against a daemon whose servers are already there.
InitWs == WsDaemonInit /\ PanelInit /\ WsInit /\ CallInit

\* broadcastToServer called with a line for server s
Broadcast(s) ==
    /\ logged[s] < MAX_LOGS + MaxLines
    /\ conn' = broadcastToServer(conn, s)
    /\ AppendLine(s)
    /\ UNCHANGED <<daemonVars, panelVars, callVars>>

\* The LogBuffers under any number of broadcasts
SpecBuffer == InitWs /\ [][\E s \in Servers : Broadcast(s)]_vars

SpecWs == InitWs /\ [][WsNext]_vars

\* Every connection, with the power actions of its session
SessionsNext == SessionStep(Conns) \/ PowerStep(Conns, {1})

SpecSessions == InitWs /\ [][SessionsNext]_vars

\* One connection whose frames are handled while earlier ones still await
ShellNext == SessionStep({1}) \/ CommandStep({1}, Handlers)

SpecShell == InitWs /\ [][ShellNext]_vars


\* Calls of fetchServerConfig by POST / and POST /:id/reinstall
SpecFetch == Init /\ [][FetchNext]_vars

\* the daemon idle, before a function is applied to an argument
Idle == DaemonInit /\ PanelInit /\ WsInit /\ fetch = [k \in Fetches |-> IdleFetch]

\* writeConfigFiles on every declared path
InitPaths == Idle /\ arg \in ConfigPaths /\ ret = <<>>

SpecPaths == InitPaths /\ [][WriteConfigFile]_vars

\* validateVariableValue on every value and rule string
InitRules == Idle /\ arg \in [value : Values, rules : RuleLists] /\ ret = <<>>

SpecRules == InitRules /\ [][Validate]_vars

\* processVariables on every template and variable list
InitVariables == Idle /\ arg \in [input : Templates, variables : VariableLists] /\ ret = <<>>

SpecVariables == InitVariables /\ [][Process]_vars

InitDecoder ==
    /\ Idle
    /\ \E frames \in FrameStreams :
          arg \in [frames : {frames}, reads : Readings(frames)]
    /\ ret = <<>>

SpecDecoder == InitDecoder /\ [][Data]_vars

\* calculateCPUPercent on every sample
InitStats == Idle /\ arg \in StatsSamples /\ ret = <<>>

SpecStats == InitStats /\ [][Sample]_vars

\* Sessions of one server, their log subscriptions, and the lines of its
\* container
LinesNext ==
    \/ SessionStep(Conns)
    \/ \E c \in Conns, i \in StreamIds : LogsOpened(c, i)
    \/ \E s \in Servers : GameLine(s)

SpecLines == InitWs /\ [][LinesNext]_vars

\* =========================================================== claims
DeleteDone(s) == del[s].pc \in {"done200", "done404", "done500"}

JobsFinished(s) == \A j \in Jobs : job[j].srv # s

\* C1: every run of runInstallation, whether it returned or threw, has
\* attempted the forced removal of the install container by the time it
\* settles.
C1_RemovalAttempted ==
    \A j \in Jobs : job[j].run \in {"returned", "threw"} => job[j].removeAttempts >= 1

\* a run that threw before it had created any container, and still attempted
\* the removal
C1_Witness ==
    \E j \in Jobs : job[j].run = "threw" /\ ~job[j].made /\ job[j].removeAttempts = 1

C3_AllocationFreedOn204 ==
    [][\A r \in Reqs :
          (preq[r].kind = "delete" /\ preq[r].pc # "done204" /\ preq'[r].pc = "done204"
              /\ preq[r].a \in Allocs)
          => ~pAlloc'[preq[r].a]]_vars

\* C4: at most one POST /servers naming an allocation ends (201) with a
\* servers row that references it.
C4_OneServerPerAllocation ==
    \A a \in Allocs :
        Cardinality({r \in Reqs : /\ preq[r].kind = "create" /\ preq[r].pc = "done201"
                                  /\ pServers[r].present
                                  /\ pServers[r].allocationId = a}) <= 1

\* C5: a connection that has closed has no stats timer.
C5_NoTimerAfterClose ==
    \A c \in Conns : conn[c].sock = "closed" => ~conn[c].timer

\* C6: once a connection has closed its session is destroyed: the registry
\* holds no session for it, its shell stream is not open, and none of its
\* log streams is live.
C6_SessionDestroyedOnClose ==
    \A c \in Conns :
        conn[c].sock = "closed" =>
            ~conn[c].sess /\ conn[c].stream # "live" /\ conn[c].live = {}

\* C7: a connection whose set-up failed (no docker_id, or the container
\* could not be inspected) is closed with 1011, was never sent auth_success,
\* and once it has closed the registry holds no session for it.
C7_FailedAttachLeavesNothing ==
    \A c \in Conns :
        conn[c].pc = "failed" =>
            /\ conn[c].close = 1011
            /\ "auth_success" \notin conn[c].sent
            /\ conn[c].sock = "closed" => ~conn[c].sess

\* the control plane did not validate the connection: a parameter is
\* missing, it refused the token, or it gave no answer
NotValidated(cn) ==
    /\ cn.pc \notin {"none", "validate"}
    /\ cn.srv = 0 \/ cn.tok = "" \/ cn.cp \in {"refused", "unreachable"}

\* C8: a connection that lacks the server or token parameter, or whose token
\* the control plane did not validate, is closed with 1008 and has no
\* session, no log subscription and no stats timer.
C8_RefusedGetsNothing ==
    \A c \in Conns :
        NotValidated(conn[c]) =>
            /\ conn[c].close = 1008
            /\ ~conn[c].sess /\ ~conn[c].attached
            /\ conn[c].pending \cup conn[c].live = {}
            /\ ~conn[c].timer

\* a connection refused because the control plane gave no answer, now closed
C8_Witness ==
    \E c \in Conns :
        /\ conn[c].cp = "unreachable" /\ conn[c].pc = "refused"
        /\ conn[c].sock = "closed"

\* C9: send_command and power_action are acted on only for a connection the
\* control plane validated and whose session is attached to its container.
C9_CommandsNeedSession ==
    \A c \in Conns :
        conn[c].ops # {} \/ (\E h \in Handlers : conn[c].task[h] # "none") =>
            conn[c].cp = "validated" /\ conn[c].attached

\* a connection whose frame sent before the set-up finished was dropped and
\* whose later send_command and power_action were acted on
C9_Witness ==
    \E c \in Conns :
        conn[c].dropped /\ conn[c].ops = {"send_command", "power_action"}

\* C10: no event has reached a connection that held no authenticated session.
C10_EventsOnlyToAuthenticated ==
    \A c \in Conns : conn[c].unauth = {}

\* C11: the step in which a line of installation output is emitted appends
\* the line to the LogBuffer of the job's server, and delivers it to no
\* connection other than the authenticated sessions bound to that server.
C11_InstallOutputBuffered ==
    [][\A j \in Jobs :
          InstallStdout(j) =>
              /\ logged'[job[j].srv] = logged[job[j].srv] + 1
              /\ \A c \in Conns :
                    conn'[c].sent # conn[c].sent =>
                        conn[c].sess /\ conn[c].srv = job[j].srv]_vars

\* the lines min(n, MAX_LOGS) most recently broadcast, of n, oldest first
LastLines(n) ==
    LET k == IF n < MAX_LOGS THEN n ELSE MAX_LOGS
    IN [i \in 1..k |-> n - k + i]

C13_BacklogOnAttach ==
    [][\A c \in Conns :
          (conn[c].pc = "inspect" /\ conn'[c].pc = "active")
          => conn'[c].backlog = logBuffers[conn[c].srv]]_vars

\* C14: a session never has more than one interactive shell running.
C14_OneShellPerSession ==
    \A c \in Conns : conn[c].shells <= 1

\* C15: the step in which handleSendCommand finds the container not running
\* sends the error event and does nothing else: the handler is over, no shell
\* is created, nothing is written, no line is broadcast or buffered and the
\* container is untouched.
C15_NotRunningOnlyError ==
    [][\A c \in Conns, h \in Handlers :
          (/\ conn[c].task[h] = "c_inspect" /\ conn'[c].task[h] # "c_inspect"
           /\ Inspectable(conn[c].srv) /\ ~Running(conn[c].srv))
          => /\ conn'[c] = Deliver([conn[c] EXCEPT !.task[h] = "none"], "error")
             /\ conn'[c].shells = conn[c].shells /\ conn'[c].written = conn[c].written
             /\ conn'[c].stream = conn[c].stream
             /\ \A d \in Conns \ {c} : conn'[d] = conn[d]
             /\ UNCHANGED <<bufVars, containers>>]_vars

\* a send_command was handled for a container that never ran: the error
\* event arrived, nothing was written, no shell, no line buffered
C15_Witness ==
    \E c \in Conns :
        /\ conn[c].ops = {"send_command"} /\ ~conn[c].dropped
        /\ \A h \in Handlers : conn[c].task[h] = "none"
        /\ Inspectable(conn[c].srv) /\ ~Running(conn[c].srv)
        /\ "error" \in conn[c].sent
        /\ conn[c].shells = 0 /\ ~conn[c].written /\ logged[conn[c].srv] = 0

\* C16: a power action announces first, then invokes the engine, then
\* re-attaches the logs (start and restart only), then reports.
\*  - the step that takes the frame appends the announcement and sends it
\*    to every session of the server and to no one else, the container
\*    still untouched;
\*  - the step in which the engine call succeeds opens a new log stream iff
\*    the action is not stop, and sends nothing;
\*  - the step that ends a successful action sends power_status on the
\*    initiating connection and changes no other connection.
C16_PowerActionOrder ==
    [][\A c \in Conns, h \in Handlers :
          LET s == conn[c].srv IN
          /\ (conn[c].task[h] = "none" /\ conn'[c].task[h] = "p_op")
             => /\ logged'[s] = logged[s] + 1
                /\ UNCHANGED containers
                /\ \A d \in Conns :
                      IF conn[d].sess /\ conn[d].srv = s
                      THEN conn[d].sock = "open" => "console_output" \in conn'[d].sent
                      ELSE conn'[d].sent = conn[d].sent
                /\ \A d \in Conns : "power_status" \in conn'[d].sent
                                    <=> "power_status" \in conn[d].sent
          /\ (conn[c].task[h] = "p_op" /\ conn'[c].task[h] = "p_inspect")
             => /\ (conn'[c].pending # conn[c].pending) <=> (conn[c].act[h] # "stop")
                /\ containers'[gameContainerName(s)].status = PowerResult(conn[c].act[h])
                /\ \A d \in Conns : conn'[d].sent = conn[d].sent
          /\ (conn[c].task[h] = "p_inspect" /\ conn'[c].task[h] = "none"
                /\ logged' = logged)
             => /\ conn[c].sock = "open" => "power_status" \in conn'[c].sent
                /\ conn'[c].pending = conn[c].pending
                /\ \A d \in Conns \ {c} : conn'[d] = conn[d]
                /\ UNCHANGED containers]_vars

\* a power action of one session was reported to it, and another session of
\* the same server got the announcement and no power_status
C16_Witness ==
    \E c, d \in Conns :
        /\ c # d /\ conn[c].srv = conn[d].srv
        /\ conn[c].ops = {"power_action"} /\ conn[c].task[1] = "none"
        /\ "power_status" \in conn[c].sent
        /\ conn[d].sess /\ conn[d].ops = {}
        /\ "console_output" \in conn[d].sent /\ "power_status" \notin conn[d].sent

\* C17: the step in which the engine operation of a power action fails
\* sends the error event on the initiating connection, sends no power_status
\* and ends the action.
C17_EngineFailureReported ==
    [][\A c \in Conns, h \in Handlers :
          (conn[c].task[h] = "p_op" /\ conn'[c].task[h] \notin {"p_op", "p_inspect"})
          => /\ conn'[c].task[h] = "none"
             /\ logged'[conn[c].srv] = logged[conn[c].srv] + 1
             /\ conn[c].sock = "open" => "error" \in conn'[c].sent
             /\ \A d \in Conns : "power_status" \in conn'[d].sent
                                 <=> "power_status" \in conn[d].sent
             /\ UNCHANGED containers]_vars

\* the power action of a session is over and its container is still as it
\* was created, so the engine call failed: the failure line was broadcast
\* after the announcement, the error event arrived and no power_status
C17_Witness ==
    \E c \in Conns :
        /\ conn[c].ops = {"power_action"} /\ conn[c].task[1] = "none"
        /\ \A d \in Conns \ {c} : conn[d].ops = {}
        /\ containers[gameContainerName(conn[c].srv)].status = "created"
        /\ logged[conn[c].srv] = 2
        /\ "error" \in conn[c].sent /\ "power_status" \notin conn[c].sent

\* C19: the step in which the engine answers a stop for a container that is
\* not running raises no error: the action goes on to report the state.
C19_StopIdempotent ==
    [][\A c \in Conns, h \in Handlers :
          (/\ conn[c].task[h] = "p_op" /\ conn'[c].task[h] # "p_op"
           /\ conn[c].act[h] = "stop"
           /\ containers[gameContainerName(conn[c].srv)].status \in {"created", "exited"})
          => /\ conn'[c].task[h] = "p_inspect"
             /\ logged' = logged
             /\ "error" \in conn'[c].sent <=> "error" \in conn[c].sent]_vars

\* C18: the step in which a power request is answered with a failure leaves
\* the server's recorded state at none of starting, stopping, restarting.
C18_FailedPowerRestoresState ==
    [][\A r \in Reqs :
          (/\ preq[r].kind = "power"
           /\ preq[r].pc # "done500" /\ preq'[r].pc = "done500")
          => pServers'[preq[r].t].state \notin PendingStates]_vars

\* C20: the step that records Errored for a server finds it Installing.
C20_ErroredOnlyFromInstalling ==
    [][\A s \in Servers :
          (row'[s].state = "errored" /\ row[s].state # "errored")
          => row[s].state = "installing"]_vars

\* C21: a call of fetchServerConfig makes at most 3 requests; what it
\* returns is the data of its first successful request; the delays that
\* elapsed between its requests are 1 s, then 2 s, one after each failed
\* request but the third; it throws only when 3 requests have failed.
C21_FetchRetries ==
    \A k \in Fetches :
        LET f == fetch[k] IN
        /\ f.requests <= 3
        /\ f.waited = [i \in 1..Len(f.waited) |-> 1000 * i]
        /\ f.pc = "request" => f.failed = f.requests - 1 /\ Len(f.waited) = f.failed
        /\ f.pc = "returned" => /\ f.config = f.requests /\ f.failed = f.requests - 1
                                /\ Len(f.waited) = f.failed
        /\ f.pc = "wait" => /\ f.failed = f.requests /\ f.requests < 3
                            /\ Len(f.waited) = f.failed - 1
                            /\ f.left + f.slept = 1000 * f.failed
        /\ f.pc = "threw" => f.requests = 3 /\ f.failed = 3 /\ f.waited = <<1000, 2000>>

\* one call has thrown after its third failure while another has returned
\* the data of its third request
C21_Witness ==
    \E k, m \in Fetches :
        /\ fetch[k].pc = "threw" /\ fetch[k].waited = <<1000, 2000>>
        /\ fetch[m].pc = "returned" /\ fetch[m].config = 3

\* C22: the location a declared config file is written to is strictly
\* inside the server's volume root.
C22_WrittenInsideVolume ==
    ret # <<>> =>
        LET root == Location(volumePath)
            at == Location(ret[1])
        IN Len(at) > Len(root) /\ SubSeq(at, 1, Len(root)) = root

\* C23 as stated: for every max:N in the rule string, a value longer than N
\* is rejected and a value of length at most N is accepted.
C23_EachMaxDecides ==
    ret # <<>> =>
        \A i \in 1..Len(arg.rules) :
            arg.rules[i].kind = "max" =>
                ret[1] = (Len(arg.value) <= arg.rules[i].n)

\* C23, amended: a value is accepted exactly when it is no longer than the
\* N of every max:N in the rule string, whatever the other rules are and
\* wherever the max rules stand; so a value longer than some N is rejected.
C23_AllMaxDecide ==
    ret # <<>> =>
        ret[1] = (\A i \in 1..Len(arg.rules) :
                     arg.rules[i].kind = "max" => Len(arg.value) <= arg.rules[i].n)

\* a value within both of two different max rules, with nullable before
\* them, was accepted
C23_Witness ==
    /\ ret = <<TRUE>>
    /\ Len(arg.value) = 1
    /\ Len(arg.rules) = 3
    /\ arg.rules[1].kind = "nullable"
    /\ arg.rules[2] = [kind |-> "max", n |-> 2]
    /\ arg.rules[3] = [kind |-> "max", n |-> 1]

\* C24: a job whose configuration has a variable whose effective value
\* breaks one of its rules has no processed script text, writes no install
\* script and creates no install container: it has failed.
C24_InvalidVariableRejectsAll ==
    \A j \in Jobs :
        job[j].violates =>
            /\ job[j].text = <<>>
            /\ ~job[j].scripted /\ ~job[j].made
            /\ job[j].failed
            /\ job[j].pc \notin {"script", "create", "attach", "start", "wait"}

\* a job was stopped by processVariables and is in its cleanup
C24_Witness ==
    \E j \in Jobs :
        /\ job[j].violates /\ job[j].pc = "finally" /\ job[j].failed
        /\ volume[job[j].srv]

\* variable names whose placeholder belongs to no variable of the list
Undefined(variables) ==
    {n \in {<<"a">>, <<"b">>} :
        \A i \in 1..Len(variables) : placeholder(variables[i].name) # placeholder(n)}

\* no occurrence of the placeholder of n in the text shares a character
\* with an occurrence of the placeholder of a variable of the list
Apart(text, variables, n) ==
    \A i \in Occurrences(text, placeholder(n)), k \in 1..Len(variables) :
        \A m \in Occurrences(text, placeholder(variables[k].name)) :
            \/ m + Len(placeholder(variables[k].name)) - 1 < i
            \/ i + Len(placeholder(n)) - 1 < m

OneFrameRead ==
    /\ ret # <<>> /\ ret[1].reads = 1
    /\ Len(arg.frames) = 1
    /\ arg.reads = <<EngineFrame(arg.frames[1].type, arg.frames[1].payload)>>

\* C26: a read holding one well-formed frame yields exactly one line, its
\* text the payload without its trailing whitespace, its origin primary
\* (INFO) when header byte 0 is 1 and diagnostic (ERROR) otherwise; a frame
\* with a zero-length payload yields no line.
C26_OneFrameOneLine ==
    OneFrameRead =>
        IF arg.frames[1].payload = <<>> THEN ret[1].lines = <<>>
        ELSE ret[1].lines =
                <<[type |-> IF arg.frames[1].type = 1 THEN "INFO" ELSE "ERROR",
                   log |-> trimEnd(toString(arg.frames[1].payload))]>>

\* the lines emitted when each read holds exactly one frame of the stream
RECURSIVE FramewiseLines(_)
FramewiseLines(frames) ==
    IF frames = <<>> THEN <<>>
    ELSE onData(EngineFrame(Head(frames).type, Head(frames).payload))
            \o FramewiseLines(Tail(frames))

\* C27: however the stream of frames is cut into reads, once every read is
\* handled the lines emitted are those emitted when each read holds exactly
\* one frame.
C27_ChunkingIrrelevant ==
    (ret # <<>> /\ ret[1].reads = Len(arg.reads))
        => ret[1].lines = FramewiseLines(arg.frames)

\* C28: the step that drops a malformed message or a malformed log frame
\* changes nothing of any connection but the record of the drop and, for a
\* message, the error event sent to its client: the socket keeps its state,
\* the session stays registered and authenticated, streams, timers, handlers
\* and the log buffers are as before, so whatever could be processed before
\* can be processed after.
C28_MalformedDropsOnlyItself ==
    [][\A c \in Conns :
          (conn[c].bad \subseteq conn'[c].bad /\ conn'[c].bad # conn[c].bad) =>
              /\ conn' = [conn EXCEPT ![c] =
                             [@ EXCEPT !.bad = conn'[c].bad,
                                       !.sent = conn'[c].sent,
                                       !.unauth = conn'[c].unauth]]
              /\ conn'[c].sent \subseteq conn[c].sent \cup {"error"}
              /\ conn'[c].unauth \subseteq conn[c].unauth \cup {"error"}
              /\ "frame" \in conn'[c].bad \ conn[c].bad => conn'[c].sent = conn[c].sent
              /\ UNCHANGED <<bufVars, daemonVars>>]_vars

\* a malformed message and a malformed frame were dropped; the socket is
\* open, the session authenticated, a command sent afterwards is being
\* handled and a line of the container was broadcast
C28_Witness ==
    /\ conn[1].bad = {"message", "frame"}
    /\ conn[1].sock = "open" /\ conn[1].sess
    /\ conn[1].task[1] = "c_inspect"
    /\ "console_output" \in conn[1].sent
    /\ conn[1].live # {}

\* C29: with both deltas positive the result r is (cpuDelta / systemDelta) x
\* onlineCpus x 100, that is r x systemDelta = cpuDelta x onlineCpus x 100
\* (80 for deltas 200 and 1000 on 4 CPUs); with a delta that is zero or
\* negative the result is 0.
C29_CpuPercent ==
    ret # <<>> =>
        LET cpuDelta == arg.total_usage - arg.pre_total_usage
            systemDelta == arg.system_cpu_usage - arg.pre_system_cpu_usage
            r == ret[1]
        IN /\ r.den > 0
           /\ (cpuDelta > 0 /\ systemDelta > 0) =>
                 r.num * systemDelta = cpuDelta * arg.online_cpus * 100 * r.den
           /\ (cpuDelta <= 0 \/ systemDelta <= 0) => r.num = 0
           /\ (cpuDelta = 200 /\ systemDelta = 1000 /\ arg.online_cpus = 4) =>
                 r = [num |-> 80, den |-> 1]

\* the sample with deltas 200 and 1000 on 4 CPUs gave 80
C29_Witness ==
    /\ ret = <<[num |-> 80, den |-> 1]>>
    /\ arg.total_usage - arg.pre_total_usage = 200
    /\ arg.system_cpu_usage - arg.pre_system_cpu_usage = 1000
    /\ arg.online_cpus = 4

\* C30: a server whose row says Installed has a docker_id that is not NULL.
C30_InstalledHasContainer ==
    \A s \in Servers :
        (row[s].present /\ row[s].state = "installed") => row[s].docker_id # Null

\* the list without its k-th variable
Without(variables, k) ==
    SubSeq(variables, 1, k - 1) \o SubSeq(variables, k + 1, Len(variables))

\* C38: text inserted as a value is never searched for another variable's
\* placeholder: a variable whose placeholder does not occur in the template
\* has nothing to replace, so the output is the same without it.
C38_SinglePass ==
    (ret # <<>> /\ ~Violates(arg.variables)) =>
        \A k \in 1..Len(arg.variables) :
            Occurrences(arg.input, placeholder(arg.variables[k].name)) = {}
            => ret[1].text = processVariables(arg.input, Without(arg.variables, k)).text

\* C39: with values that hold no "%", no occurrence of the placeholder of a
\* variable of the list is left in the output.
C39_EveryOccurrenceReplaced ==
    (ret # <<>> /\ ~Violates(arg.variables)
       /\ \A k \in 1..Len(arg.variables) :
             \A i \in 1..Len(EffectiveValue(arg.variables[k])) :
                 EffectiveValue(arg.variables[k])[i] # "%") =>
        \A k \in 1..Len(arg.variables) :
            Occurrences(ret[1].text, placeholder(arg.variables[k].name)) = {}

\* C36: a job one of whose pulls failed has failed and is past the try
\* block: it made no volume directory, wrote no config file and no install
\* script, and created, attached and started no install container.
C36_PullFailureAborts ==
    \A j \in Jobs :
        job[j].pullFailed =>
            /\ job[j].failed
            /\ job[j].pc \in {"finally", "fail_upd", "r_errored"}
            /\ ~job[j].dir /\ ~job[j].configured /\ ~job[j].scripted
            /\ ~job[j].made /\ ~job[j].attached /\ job[j].exit = -1

\* a job whose pull failed has run its finally block and its caller is about
\* to record the failure; the server has no volume directory and no install
\* container
C36_Witness ==
    \E j \in Jobs :
        /\ job[j].pullFailed /\ job[j].run = "threw"
        /\ job[j].pc \in {"fail_upd", "r_errored"}
        /\ ~volume[job[j].srv]
        /\ containers[installContainerName(job[j].srv)].status = "absent"

\* C37: the step in which container.wait() settles lets runInstallation go
\* on without an error only when the exit code is 0; with any other exit code
\* the job fails with the error that carries that exit code and the chunks of
\* stdout and stderr accumulated in `output`, in the order they arrived.
C37_NonZeroExitFails ==
    [][\A j \in Jobs :
          (job[j].pc = "wait" /\ job'[j].pc # "wait") =>
              /\ ~job'[j].failed => (job[j].exit = 0 /\ job'[j].error = <<>>)
              /\ job'[j].failed =>
                    \/ job'[j].error = WaitError
                    \/ /\ job[j].exit \notin {-1, 0}
                       /\ job'[j].error =
                             <<[code |-> job[j].exit, output |-> job[j].output]>>
              /\ (job[j].exit \notin {-1, 0} /\ job'[j].error # WaitError) =>
                    job'[j].failed]_vars

\* an install container wrote to stdout and to stderr and exited with code
\* 1: the job failed with the error that carries both chunks and the code
C37_Witness ==
    \E j \in Jobs :
        /\ job[j].failed
        /\ job[j].error = <<[code |-> 1, output |-> <<"stdout", "stderr">>]>>

\* C40: the step in which runInstallation starts its install container is
\* taken by a job that has attached to the container's output and wired it
\* to the stdout and stderr Writables; and a running install container
\* whose job is still waiting for it is attached.
C40_AttachedBeforeStart ==
    [][\A j \in Jobs :
          /\ (job[j].pc = "start" /\ job'[j].pc = "wait") =>
                (job[j].attached /\ job[j].made)
          /\ LET n == installContainerName(job'[j].srv) IN
             (job'[j].pc = "wait" /\ containers'[n].status = "running"
                 /\ containers'[n].owner = j) => job'[j].attached]_vars

\* a job has started its install container and waits for it: the container
\* runs and its output is attached
C40_Witness ==
    \E j \in Jobs :
        /\ job[j].pc = "wait" /\ job[j].attached
        /\ containers[installContainerName(job[j].srv)] = [status |-> "running", owner |-> j]

\* C35: the finally block of a job leaves every running install container
\* that another job created as it was.
C35_CleanupOnlyOwn ==
    [][\A j \in Jobs :
          (job[j].pc = "finally" /\ job'[j].pc # "finally") =>
              \A s \in Servers :
                  LET c == containers[installContainerName(s)] IN
                  (c.status = "running" /\ c.owner # j)
                      => containers'[installContainerName(s)] = c]_vars

\* C32: no game container is created for a server whose deletion the daemon
\* has completed.
C32_NoGameContainerAfterDelete ==
    [][\A s \in Servers :
          (containers[gameContainerName(s)].status = "absent"
             /\ containers'[gameContainerName(s)].status # "absent")
          => del[s].pc # "done200"]_vars

\* C33: a session never has more than one live log stream.
C33_OneLiveLogStream ==
    \A c \in Conns : Cardinality(conn[c].live) <= 1

\* C34: in the text written to a session's shell the redirect line stands
\* nowhere but first, and the commands stand in the order in which their
\* send_command events arrived.
C34_ShellWriteOrder ==
    \A c \in Conns :
        LET text == conn[c].shell IN
        /\ \A i \in 1..Len(text) : text[i] = RedirectLine => i = 1
        /\ \A i \in 1..Len(text), k \in 1..Len(text) :
              (i < k /\ text[i] # RedirectLine /\ text[k] # RedirectLine)
                  => text[i] < text[k]

\* C31: the step in which a line of a server's container is handled, with
\* sessions that hold one live log stream each, broadcasts the line once: one
\* append to the server's LogBuffer (and with it one console_output to each
\* authenticated session), however many sessions there are.
C31_LineBroadcastOnce ==
    [][\A s \in Servers :
          (GameLine(s) /\ \A c \in Conns : Cardinality(conn[c].live) <= 1)
              => logged'[s] = logged[s] + 1]_vars

====
